---- MODULE Spec2Model ----
(***************************************************************************)
(* Verification model of the DSA question generator (saichandan-g/dsa-gen). *)
(*                                                                         *)
(* Texts are sequences of one-character strings.  JavaScript indices are   *)
(* kept 0-based as in the source; s[i] of the source is s[i + 1] here.     *)
(***************************************************************************)
EXTENDS Integers, Sequences, FiniteSets, TLC

\* ------------------------------------------------------------------------
\* Bounds of the model
\* ------------------------------------------------------------------------
\* longest arbitrary raw text fed to the extractor
MaxRawLen == 3
\* longest string value inside a generated JSON object
MaxStrLen == 3
\* longest prose prefix / suffix wrapped around an embedded object
MaxProse == 1
\* most pieces a free-text field of a variant is put together from
MaxPieces == 3
\* most elements of an array field of a variant
MaxItems == 2
\* most variants in one provider response
MaxVariants == 5

\* the ids of the write endpoint are 1..MaxId
MaxId == 2

\* ------------------------------------------------------------------------
\* Characters
\* ------------------------------------------------------------------------
QT == "\""
BS == "\\"
NL == "\n"
SP == " "

Digits == {"0", "1", "2", "3", "4", "5", "6", "7", "8", "9"}

\* String.prototype.trim / JSON whitespace, restricted to the characters the
\* model uses
IsWs(c) == c \in {SP, NL}

\* F applied to the value of x: x is evaluated once, as the argument of a call
\* is in the source
Bind(x, F(_)) == CHOOSE r \in {F(v) : v \in {x}} : TRUE

RECURSIVE TrimLeft(_)
TrimLeft(s) ==
    IF s # <<>> /\ IsWs(Head(s)) THEN TrimLeft(Tail(s)) ELSE s

RECURSIVE TrimRight(_)
TrimRight(s) ==
    IF s # <<>> /\ IsWs(s[Len(s)]) THEN TrimRight(SubSeq(s, 1, Len(s) - 1)) ELSE s

Trim(s) == Bind(s, LAMBDA v : TrimRight(TrimLeft(v)))

\* s.substring(a, b) with 0-based a (inclusive) and b (exclusive)
Substring(s, a, b) == SubSeq(s, a + 1, b)

\* s.indexOf(c): 0-based index of the first c, -1 if none
RECURSIVE IndexOfFrom(_, _, _)
IndexOfFrom(s, c, i) ==
    IF i >= Len(s) THEN -1
    ELSE IF s[i + 1] = c THEN i
    ELSE IndexOfFrom(s, c, i + 1)

IndexOf(s, c) == IndexOfFrom(s, c, 0)

\* s.lastIndexOf(c)
RECURSIVE LastIndexOfFrom(_, _, _)
LastIndexOfFrom(s, c, i) ==
    IF i < 0 THEN -1
    ELSE IF s[i + 1] = c THEN i
    ELSE LastIndexOfFrom(s, c, i - 1)

LastIndexOf(s, c) == LastIndexOfFrom(s, c, Len(s) - 1)

\* all texts over alphabet A of length at most n
RECURSIVE TextsUpTo(_, _)
TextsUpTo(A, n) ==
    IF n = 0 THEN {<<>>}
    ELSE LET shorter == TextsUpTo(A, n - 1)
         IN  shorter \cup {Append(t, c) : t \in shorter, c \in A}

\* ------------------------------------------------------------------------
\* JSON values, JSON.parse and JSON.stringify
\* ------------------------------------------------------------------------
\* A JSON value is a record [t, s, kids]:
\*   t = "str": s is the string's characters
\*   t = "num": s is the digits of the number
\*   t = "lit": s is true, false or null
\*   t = "arr": kids is the sequence of [k |-> <<>>, v |-> element]
\*   t = "obj": kids is the sequence of [k |-> key, v |-> value] in insertion order
JStr(s) == [t |-> "str", s |-> s, kids |-> <<>>]
JNum(s) == [t |-> "num", s |-> s, kids |-> <<>>]
JLit(s) == [t |-> "lit", s |-> s, kids |-> <<>>]
JArr(vs) == [t |-> "arr", s |-> <<>>, kids |-> [j \in 1..Len(vs) |-> [k |-> <<>>, v |-> vs[j]]]]
JObj(kvs) == [t |-> "obj", s |-> <<>>, kids |-> kvs]
JNone == [t |-> "none", s |-> <<>>, kids |-> <<>>]

Fail == [ok |-> FALSE, val |-> JNone, next |-> 0]
Ok(v, n) == [ok |-> TRUE, val |-> v, next |-> n]

RECURSIVE SkipWs(_, _)
SkipWs(s, i) == IF i <= Len(s) /\ IsWs(s[i]) THEN SkipWs(s, i + 1) ELSE i

\* the character a JSON escape \c stands for
Unescape(c) ==
    CASE c = "n" -> NL
      [] OTHER -> c

EscapeChars == {QT, BS, "/", "n"}

\* characters of a string literal from position i (just after the opening quote)
RECURSIVE ParseChars(_, _, _)
ParseChars(s, i, acc) ==
    IF i > Len(s) THEN Fail
    ELSE IF s[i] = QT THEN Ok(JStr(acc), i + 1)
    ELSE IF s[i] = BS THEN
        IF i + 1 <= Len(s) /\ s[i + 1] \in EscapeChars
        THEN ParseChars(s, i + 2, Append(acc, Unescape(s[i + 1])))
        ELSE Fail
    ELSE IF s[i] = NL THEN Fail
    ELSE ParseChars(s, i + 1, Append(acc, s[i]))

RECURSIVE ParseDigits(_, _)
ParseDigits(s, i) == IF i <= Len(s) /\ s[i] \in Digits THEN ParseDigits(s, i + 1) ELSE i

\* an integer literal; a leading zero ends the number
ParseNumber(s, i) ==
    Bind(IF s[i] = "0" THEN i + 1 ELSE ParseDigits(s, i), LAMBDA e :
        Ok(JNum(SubSeq(s, i, e - 1)), e))

Literals == {<<"t", "r", "u", "e">>, <<"f", "a", "l", "s", "e">>, <<"n", "u", "l", "l">>}

ParseLiteral(s, i) ==
    IF \E w \in Literals : i + Len(w) - 1 <= Len(s) /\ SubSeq(s, i, i + Len(w) - 1) = w
    THEN LET w == CHOOSE w \in Literals :
                      i + Len(w) - 1 <= Len(s) /\ SubSeq(s, i, i + Len(w) - 1) = w
         IN  Ok(JLit(w), i + Len(w))
    ELSE Fail

\* obj[k] = v of a JavaScript object: a repeated key keeps its first position
\* and takes the last value
PutKey(kids, k, v) ==
    IF \E j \in 1..Len(kids) : kids[j].k = k
    THEN [j \in 1..Len(kids) |-> IF kids[j].k = k THEN [k |-> k, v |-> v] ELSE kids[j]]
    ELSE Append(kids, [k |-> k, v |-> v])

RECURSIVE ParseValue(_, _)
RECURSIVE ParseMembers(_, _, _)
RECURSIVE ParseElements(_, _, _)

\* members of an object from position i (a key is expected)
ParseMembers(s, i, acc) ==
    Bind(SkipWs(s, i), LAMBDA a :
    IF a > Len(s) \/ s[a] # QT THEN Fail
    ELSE Bind(ParseChars(s, a + 1, <<>>), LAMBDA key :
    IF ~key.ok THEN Fail
    ELSE Bind(SkipWs(s, key.next), LAMBDA b :
    IF b > Len(s) \/ s[b] # ":" THEN Fail
    ELSE Bind(ParseValue(s, b + 1), LAMBDA val :
    IF ~val.ok THEN Fail
    ELSE Bind(SkipWs(s, val.next), LAMBDA c :
    IF c > Len(s) THEN Fail
    ELSE Bind(PutKey(acc, key.val.s, val.val), LAMBDA acc2 :
    IF s[c] = "}" THEN Ok(JObj(acc2), c + 1)
    ELSE IF s[c] = "," THEN ParseMembers(s, c + 1, acc2)
    ELSE Fail))))))

\* elements of an array from position i (a value is expected)
ParseElements(s, i, acc) ==
    Bind(ParseValue(s, i), LAMBDA val :
    IF ~val.ok THEN Fail
    ELSE Bind(SkipWs(s, val.next), LAMBDA c :
    IF c > Len(s) THEN Fail
    ELSE Bind(Append(acc, val.val), LAMBDA acc2 :
    IF s[c] = "]" THEN Ok(JArr(acc2), c + 1)
    ELSE IF s[c] = "," THEN ParseElements(s, c + 1, acc2)
    ELSE Fail)))

ParseValue(s, i) ==
    Bind(SkipWs(s, i), LAMBDA a :
    IF a > Len(s) THEN Fail
    ELSE IF s[a] = "{" THEN
        Bind(SkipWs(s, a + 1), LAMBDA b :
            IF b <= Len(s) /\ s[b] = "}" THEN Ok(JObj(<<>>), b + 1)
            ELSE ParseMembers(s, a + 1, <<>>))
    ELSE IF s[a] = "[" THEN
        Bind(SkipWs(s, a + 1), LAMBDA b :
            IF b <= Len(s) /\ s[b] = "]" THEN Ok(JArr(<<>>), b + 1)
            ELSE ParseElements(s, a + 1, <<>>))
    ELSE IF s[a] = QT THEN ParseChars(s, a + 1, <<>>)
    ELSE IF s[a] \in Digits THEN ParseNumber(s, a)
    ELSE ParseLiteral(s, a))

\* JSON.parse(s): ok = FALSE stands for the SyntaxError it throws
JsonParse(s) ==
    Bind(s, LAMBDA t :
        Bind(ParseValue(t, 1), LAMBDA r :
            IF r.ok /\ SkipWs(t, r.next) > Len(t) THEN r ELSE Fail))

RECURSIVE Quote(_)
Quote(s) ==
    IF s = <<>> THEN <<>>
    ELSE LET c == Head(s)
             e == CASE c = QT -> <<BS, QT>>
                    [] c = BS -> <<BS, BS>>
                    [] c = NL -> <<BS, "n">>
                    [] OTHER -> <<c>>
         IN  e \o Quote(Tail(s))

RECURSIVE Stringify(_)
RECURSIVE StringifyKids(_, _, _)

StringifyKids(kids, j, isObj) ==
    IF j > Len(kids) THEN <<>>
    ELSE (IF j > 1 THEN <<",">> ELSE <<>>)
         \o (IF isObj THEN <<QT>> \o Quote(kids[j].k) \o <<QT, ":">> ELSE <<>>)
         \o Stringify(kids[j].v)
         \o StringifyKids(kids, j + 1, isObj)

\* JSON.stringify(v)
Stringify(v) ==
    CASE v.t = "str" -> <<QT>> \o Quote(v.s) \o <<QT>>
      [] v.t = "obj" -> <<"{">> \o StringifyKids(v.kids, 1, TRUE) \o <<"}">>
      [] v.t = "arr" -> <<"[">> \o StringifyKids(v.kids, 1, FALSE) \o <<"]">>
      [] OTHER -> v.s

\* ------------------------------------------------------------------------
\* Text helpers of the normalizer
\* ------------------------------------------------------------------------
UpperLetters == <<"A", "B", "C", "D", "E", "F", "G", "H", "I", "J", "K", "L", "M",
                  "N", "O", "P", "Q", "R", "S", "T", "U", "V", "W", "X", "Y", "Z">>
LowerLetters == <<"a", "b", "c", "d", "e", "f", "g", "h", "i", "j", "k", "l", "m",
                  "n", "o", "p", "q", "r", "s", "t", "u", "v", "w", "x", "y", "z">>

\* c.toLowerCase()
LowerChar(c) ==
    IF \E j \in 1..Len(UpperLetters) : UpperLetters[j] = c
    THEN LowerLetters[CHOOSE j \in 1..Len(UpperLetters) : UpperLetters[j] = c]
    ELSE c

\* text t has word w at 1-based position j
HasAt(t, j, w) == j + Len(w) - 1 <= Len(t) /\ SubSeq(t, j, j + Len(w) - 1) = w

\* text t starts with word w, ignoring case (w is lower case)
StartsWithCI(t, w) ==
    Len(w) <= Len(t) /\ \A j \in 1..Len(w) : LowerChar(t[j]) = w[j]

\* the backquote character, written # (a string of the model cannot hold a backquote)
BT == "#"
Fence == <<BT, BT, BT>>
EscapedNewline2 == <<BS, BS, "n">>
EscapedNewline == <<BS, "n">>

\* position of the first fence at or after j, 0 if none
RECURSIVE FindFence(_, _)
FindFence(t, j) ==
    IF j + Len(Fence) - 1 > Len(t) THEN 0
    ELSE IF HasAt(t, j, Fence) THEN j
    ELSE FindFence(t, j + 1)

\* t.replace(/###[\s\S]*?###/g, '') with # for the backquote: every span from a fence to the next fence
\* is removed, left to right
RECURSIVE RemoveFencesFrom(_, _)
RemoveFencesFrom(t, j) ==
    IF j > Len(t) THEN <<>>
    ELSE IF HasAt(t, j, Fence) /\ FindFence(t, j + Len(Fence)) # 0
    THEN RemoveFencesFrom(t, FindFence(t, j + Len(Fence)) + Len(Fence))
    ELSE <<t[j]>> \o RemoveFencesFrom(t, j + 1)

RemoveFences(t) == Bind(t, LAMBDA v : RemoveFencesFrom(v, 1))

\* t.replace(/\\\\n/g, '\\n'): every backslash-backslash-n becomes backslash-n,
\* in one left-to-right pass
RECURSIVE FixNewlinesFrom(_, _)
FixNewlinesFrom(t, j) ==
    IF j > Len(t) THEN <<>>
    ELSE IF HasAt(t, j, EscapedNewline2)
    THEN EscapedNewline \o FixNewlinesFrom(t, j + Len(EscapedNewline2))
    ELSE <<t[j]>> \o FixNewlinesFrom(t, j + 1)

FixNewlines(t) == Bind(t, LAMBDA v : FixNewlinesFrom(v, 1))

\* t.includes('\\\\n')
HasEscapedNewline2(t) == \E j \in 1..Len(t) : HasAt(t, j, EscapedNewline2)

\* t.replace(/^(w1|w2|...):?\s*/i, ''): the first of the words that starts the
\* text is removed together with an optional colon and the whitespace after it
StripLabel(text, words) ==
    Bind(text, LAMBDA t :
        IF \E k \in 1..Len(words) : StartsWithCI(t, words[k])
        THEN LET k == CHOOSE k \in 1..Len(words) :
                          /\ StartsWithCI(t, words[k])
                          /\ \A m \in 1..(k - 1) : ~StartsWithCI(t, words[m])
                 rest == SubSeq(t, Len(words[k]) + 1, Len(t))
             IN  TrimLeft(IF rest # <<>> /\ Head(rest) = ":" THEN Tail(rest) ELSE rest)
        ELSE t)

CleanLabels == << <<"e", "x", "p", "l", "a", "n", "a", "t", "i", "o", "n">>,
                  <<"n", "o", "t", "e">>,
                  <<"h", "i", "n", "t">>,
                  <<"o", "u", "t", "p", "u", "t">> >>

ConstraintLabels == << <<"c", "o", "n", "s", "t", "r", "a", "i", "n", "t", "s">>,
                       <<"n", "o", "t", "e">> >>

\* the character class [\d\s<=>^().*+-]
ConstraintChar(c) ==
    c \in Digits \/ IsWs(c) \/ c \in {"<", "=", ">", "^", "(", ")", ".", "*", "+", "-"}

\* t.match(/^[\d\s<=>^().*+-]+$/)
LooksNumeric(t) == t # <<>> /\ \A j \in 1..Len(t) : ConstraintChar(t[j])

\* line.match(/[\d\s<=>^().*+-]+/)
LineHasConstraintChar(t) == \E j \in 1..Len(t) : ConstraintChar(t[j])

\* t.split('\n')
RECURSIVE SplitLines(_, _)
SplitLines(t, cur) ==
    IF t = <<>> THEN <<cur>>
    ELSE IF Head(t) = NL THEN <<cur>> \o SplitLines(Tail(t), <<>>)
    ELSE SplitLines(Tail(t), Append(cur, Head(t)))

\* lines.join('\n')
RECURSIVE JoinLines(_)
JoinLines(ls) ==
    IF ls = <<>> THEN <<>>
    ELSE IF Len(ls) = 1 THEN ls[1]
    ELSE ls[1] \o <<NL>> \o JoinLines(Tail(ls))

\* lines.filter(line => line.match(/[\d\s<=>^().*+-]+/))
RECURSIVE FilterLines(_)
FilterLines(ls) ==
    IF ls = <<>> THEN <<>>
    ELSE (IF LineHasConstraintChar(Head(ls)) THEN <<Head(ls)>> ELSE <<>>)
         \o FilterLines(Tail(ls))

\* ------------------------------------------------------------------------
\* Loosely typed variants
\* ------------------------------------------------------------------------
\* A field of a variant is a JSON value, or JUndef when the field is absent
\* (JSON.parse never yields a property holding undefined, and the normalizer
\* deletes every property it set to undefined: absent and undefined coincide).
JUndef == [t |-> "undef", s |-> <<>>, kids |-> <<>>]
JNull == JLit(<<"n", "u", "l", "l">>)
JFalse == JLit(<<"f", "a", "l", "s", "e">>)

IsNullish(v) == v.t = "undef" \/ v = JNull

\* the JavaScript truthiness of v
Truthy(v) ==
    /\ ~IsNullish(v)
    /\ v # JFalse
    /\ ~(v.t = "str" /\ v.s = <<>>)
    /\ ~(v.t = "num" /\ v.s = <<"0">>)

\* typeof v === 'object' && v !== null (arrays included)
IsObjectLike(t) == t \in {"obj", "arr"}

\* String(v)
RECURSIVE JsString(_)
RECURSIVE JoinItems(_, _)
JoinItems(kids, j) ==
    IF j > Len(kids) THEN <<>>
    ELSE (IF j > 1 THEN <<",">> ELSE <<>>)
         \o (IF IsNullish(kids[j].v) THEN <<>> ELSE JsString(kids[j].v))
         \o JoinItems(kids, j + 1)

JsString(v) ==
    CASE v.t \in {"str", "num", "lit"} -> v.s
      [] v.t = "arr" -> JoinItems(v.kids, 1)
      [] v.t = "obj" -> <<"[", "o", "b", "j", "e", "c", "t", " ", "O", "b", "j", "e", "c", "t", "]">>
      [] OTHER -> <<"u", "n", "d", "e", "f", "i", "n", "e", "d">>

\* the array of strings strs as a value
StrArray(strs) == Bind(strs, LAMBDA a : JArr([j \in 1..Len(a) |-> JStr(a[j])]))

\* the text of cleanTextField for a string argument
CleanText(t) == Trim(StripLabel(Trim(RemoveFences(Trim(t))), CleanLabels))

\* cleanTextField(v): [thrown, val]; a non-string, non-nullish argument has
\* no trim method and the call throws a TypeError
cleanTextField(text) ==
    Bind(text, LAMBDA v :
        IF IsNullish(v) THEN [thrown |-> FALSE, val |-> JUndef]
        ELSE IF v.t # "str" THEN [thrown |-> TRUE, val |-> JUndef]
        ELSE Bind(CleanText(v.s), LAMBDA c :
                [thrown |-> FALSE, val |-> IF Len(c) > 0 THEN JStr(c) ELSE JUndef]))

\* arr.map(item => String(item).replace(/\\\\n/g, '\\n').trim())
MapItems(items) ==
    Bind(items, LAMBDA kids :
        [j \in 1..Len(kids) |-> Trim(FixNewlines(JsString(kids[j].v)))])

\* ensureStringArray(v): a sequence of texts
ensureStringArray(arr) ==
    Bind(arr, LAMBDA v :
        IF v.t = "arr" THEN MapItems(v.kids)
        ELSE IF v.t = "str" THEN
            Bind(JsonParse(v.s), LAMBDA p :
                IF p.ok /\ p.val.t = "arr" THEN MapItems(p.val.kids) ELSE <<>>)
        ELSE <<>>)

\* step 5 of validateAndFixVariant for a string constraints field
FixConstraints(t) ==
    Bind(Trim(RemoveFences(StripLabel(t, ConstraintLabels))), LAMBDA c1 :
        Bind(IF ~LooksNumeric(c1)
             THEN Trim(Bind(SplitLines(c1, <<>>), LAMBDA ls :
                        Bind(FilterLines(ls), LAMBDA kept : JoinLines(kept))))
             ELSE c1,
             LAMBDA c2 : IF Len(c2) = 0 THEN JUndef ELSE JStr(c2)))

\* the two hidden arrays of test_cases through ensureStringArray
HiddenArrays(tc) ==
    [f \in {"hidden_inputs", "hidden_outputs"} |->
        IF Truthy(tc[f]) THEN ensureStringArray(tc[f]) ELSE <<>>]

\* steps 1-3: the test_cases object (mutated in place by the source)
FixTestCases(testCases) ==
    Bind(testCases, LAMBDA tc :
        Bind(HiddenArrays(tc), LAMBDA a :
            [tc EXCEPT
                !.sample_input =
                    IF tc.sample_input.t = "str"
                    THEN JStr(Trim(FixNewlines(tc.sample_input.s)))
                    ELSE JUndef,
                !.hidden_inputs =
                    StrArray([j \in 1..Len(a.hidden_inputs) |->
                                Trim(FixNewlines(a.hidden_inputs[j]))]),
                !.hidden_outputs =
                    StrArray([j \in 1..Len(a.hidden_outputs) |->
                                Bind(cleanTextField(JStr(a.hidden_outputs[j])).val,
                                     LAMBDA c : IF Truthy(c) THEN c.s ELSE <<>>)])]))

\* step 7 for tags and for one array field of metadata: a string goes through
\* ensureStringArray; for a field of metadata the string must be truthy
FixArrayField(field, anyString) ==
    Bind(field, LAMBDA v :
        IF v.t = "str" /\ (anyString \/ Truthy(v))
        THEN StrArray(ensureStringArray(v))
        ELSE v)

MetadataArrays == {"mastery_indicators", "common_approaches", "common_mistakes", "tags"}

FixMetadata(metadata) ==
    Bind(metadata, LAMBDA md :
        IF ~IsObjectLike(md.t) THEN md
        ELSE [f \in DOMAIN md |->
                IF f \in MetadataArrays THEN FixArrayField(md[f], FALSE) ELSE md[f]])

\* the four fields that go through cleanTextField
CleanedFields == {"description", "hint", "input_format", "output_format"}

\* validateAndFixVariant(variant): [thrown, v].  The assignments to
\* fixedVariant.test_cases.* throw a TypeError when test_cases is undefined,
\* null or a primitive (module code is strict); cleanTextField throws on a
\* non-string.  The closing loops delete the properties that hold undefined,
\* which is what JUndef already stands for.
validateAndFixVariant(input) ==
    Bind(input, LAMBDA variant :
        IF ~IsObjectLike(variant.test_cases.t) THEN [thrown |-> TRUE, v |-> variant]
        ELSE Bind([f \in CleanedFields |-> cleanTextField(variant[f])], LAMBDA c :
            IF \E f \in CleanedFields : c[f].thrown
            THEN [thrown |-> TRUE, v |-> variant]
            ELSE [thrown |-> FALSE,
                  v |-> [variant EXCEPT
                            !.test_cases = FixTestCases(variant.test_cases),
                            !.description = c.description.val,
                            !.hint = c.hint.val,
                            !.constraints =
                                IF variant.constraints.t = "str"
                                THEN FixConstraints(variant.constraints.s)
                                ELSE JUndef,
                            !.input_format = c.input_format.val,
                            !.output_format = c.output_format.val,
                            !.tags = FixArrayField(variant.tags, TRUE),
                            !.metadata = FixMetadata(variant.metadata)]]))

\* ------------------------------------------------------------------------
\* State
\* ------------------------------------------------------------------------
VARIABLES
    \* extractJSONObject: the argument, where it came from, and its locals
    raw,            \* the raw text passed in
    origin,         \* how the input was built: [kind, obj, prefix, suffix]
    epc,            \* position: "entry", "scan", "after", "returned", "thrown"
    s,              \* raw.trim()
    i,              \* loop index of the scan
    braceCount,
    inString,
    escapeNext,
    startIdx,
    endIdx,
    result,         \* the returned text
    \* validateAndFixVariant applied once and twice
    nv,             \* the variant passed in
    npc,            \* position: "input", "once", "twice", "thrown"
    nres1,          \* validateAndFixVariant(nv)
    nres2,          \* validateAndFixVariant(nres1)
    \* POST /api/generate-question: the request, the handler's locals, the
    \* collaborators and the response
    req,            \* the request body: [topic, model, apiKey, count, temperature]
    xApiKey,        \* the request's x-api-key header; <<>> when it is absent
    pc,             \* position of the handler
    tries,          \* the calls of oneTry so far: [temp, count, provider, model]
    variants,       \* responseObj.variants
    idx,            \* loop index over the variants
    inserted,       \* [id, title] of the rows inserted
    errors,         \* [variant, error] of the variants that failed
    store,          \* public.problems: the rows inserted, with their ids
    seqResets,      \* calls of resetProblemsSequence
    providerCalls,  \* calls of the provider
    response,       \* the HTTP response: [status, shape]
    \* enrichMetadata applied to one variant
    ev,             \* the variant passed in
    ernd,           \* the outcome of Math.random: [n, perm]
    enpc,           \* position: "input", "enriched", "thrown"
    eres,           \* enrichMetadata(ev)
    \* POST /api/questions: the environment, the request, the table and the
    \* response
    API_KEY,        \* process.env.API_KEY; <<>> when it is not set
    wreq,           \* the request: [backend, header, kind, body]
    wpc,            \* position of the handler
    wrows,          \* the ids of the questions in the table
    wcontent,       \* what the row of each id holds: who wrote it, "none" without a row
    wresponse,      \* the HTTP response: [status, message, data]
    \* the resolution of a model selection
    modelSelection, \* the caller's selection string
    selpc,          \* position: "input", "resolved"
    selProvider,    \* getProviderFromModel(modelSelection)
    selModel,       \* getModelFromSelection(modelSelection)
    \* two POST /api/questions requests at once
    rreq,           \* the backend and the two requests: [backend, bodies]
    rpc,            \* the position of each request
    rrows,          \* the table: rows [id, by]
    rresp,          \* the response of each request: [status, message, at]
    \* GET /api/questions
    greq,           \* the request: [backend, header, id, tags, difficulty]
    gpc,            \* position of the handler
    gtable,         \* the table: rows [id, tags, difficulty]
    gresp           \* the HTTP response: [status, rows]

extVars == <<raw, origin, epc, s, i, braceCount, inString, escapeNext,
             startIdx, endIdx, result>>
normVars == <<nv, npc, nres1, nres2>>

genVars == <<req, xApiKey, pc, tries, variants, idx, inserted, errors, store, seqResets,
             providerCalls, response>>

enrVars == <<ev, ernd, enpc, eres>>

wrVars == <<API_KEY, wreq, wpc, wrows, wcontent, wresponse>>

selVars == <<modelSelection, selpc, selProvider, selModel>>

raceVars == <<rreq, rpc, rrows, rresp>>

readVars == <<greq, gpc, gtable, gresp>>

vars == <<extVars, normVars, genVars, enrVars, wrVars, selVars, raceVars, readVars>>

\* ------------------------------------------------------------------------
\* extractJSONObject
\* ------------------------------------------------------------------------
\* the locals of the scan loop
ScanInit == [i |-> 0, braceCount |-> 0, inString |-> FALSE, escapeNext |-> FALSE,
             startIdx |-> -1, endIdx |-> -1, done |-> FALSE]

\* one iteration of the for loop over text t, from the locals st
ScanIter(t, st) ==
    LET char == t[st.i + 1]
        next == [st EXCEPT !.i = st.i + 1]
    IN
    IF st.escapeNext THEN [next EXCEPT !.escapeNext = FALSE]
    ELSE IF char = BS THEN [next EXCEPT !.escapeNext = TRUE]
    ELSE
        LET str == IF char = QT THEN ~st.inString ELSE st.inString
            n2 == [next EXCEPT !.inString = str]
        IN
        IF str THEN n2
        ELSE IF char = "{" THEN
            [n2 EXCEPT !.startIdx = IF st.startIdx = -1 THEN st.i ELSE st.startIdx,
                       !.braceCount = st.braceCount + 1]
        ELSE IF char = "}" THEN
            IF st.braceCount - 1 = 0 /\ st.startIdx # -1
            THEN [st EXCEPT !.inString = str, !.braceCount = 0,
                            !.endIdx = st.i, !.done = TRUE]
            ELSE [n2 EXCEPT !.braceCount = st.braceCount - 1]
        ELSE n2

\* the whole loop
RECURSIVE ScanFrom(_, _)
ScanFrom(t, locals) ==
    Bind(locals, LAMBDA st :
        IF st.done \/ st.i >= Len(t) THEN st ELSE ScanFrom(t, ScanIter(t, st)))

\* s.match(/\{[\s\S]*\}/): the greedy match runs from the first "{" to the
\* last "}" after it; <<>> stands for no match
RegexBraces(t) ==
    LET f == IndexOf(t, "{")
        l == LastIndexOf(t, "}")
    IN  IF f # -1 /\ l > f THEN Substring(t, f, l + 1) ELSE <<>>

\* the fallback taken when the scan found no span
PotentialJson(t) ==
    LET firstBrace == IndexOf(t, "{")
        lastBrace == LastIndexOf(t, "}")
    IN  IF firstBrace # -1 /\ lastBrace # -1 /\ lastBrace > firstBrace
        THEN Substring(t, firstBrace, lastBrace + 1)
        ELSE RegexBraces(t)

\* what the code after the loop does: [thrown, text]
AfterScan(t, locals) ==
    Bind(locals, LAMBDA st :
        IF st.startIdx = -1 \/ st.endIdx = -1
        THEN Bind(PotentialJson(t), LAMBDA p :
                IF p # <<>> /\ JsonParse(p).ok
                THEN [thrown |-> FALSE, text |-> p]
                ELSE [thrown |-> TRUE, text |-> <<>>])
        ELSE [thrown |-> FALSE, text |-> Substring(t, st.startIdx, st.endIdx + 1)])

\* extractJSONObject(raw) as a function: [thrown, text]
ExtractJSONObject(r) ==
    Bind(Trim(r), LAMBDA t :
        IF JsonParse(t).ok THEN [thrown |-> FALSE, text |-> t]
        ELSE AfterScan(t, ScanFrom(t, ScanInit)))

\* ------------------------------------------------------------------------
\* Inputs of the normalizer
\* ------------------------------------------------------------------------
NoteLabel == <<"N", "o", "t", "e", ":">>
HintWord == <<"h", "i", "n", "t">>
ConstraintsLabel == <<"C", "o", "n", "s", "t", "r", "a", "i", "n", "t", "s", ":">>

\* what the texts of the cleanTextField fields, of constraints and of
\* sample_input are put together from
CleanPieces == {NoteLabel, HintWord, Fence, <<"x">>, <<SP>>, <<NL>>}
ConstraintPieces == {ConstraintsLabel, NoteLabel, Fence, <<"x">>, <<"1">>, <<SP>>, <<NL>>}
SamplePieces == {EscapedNewline2, <<BS>>, <<"n">>, <<"1">>, <<SP>>}

\* all concatenations of at most n pieces
RECURSIVE PieceTexts(_, _)
PieceTexts(P, n) ==
    IF n = 0 THEN {<<>>}
    ELSE LET shorter == PieceTexts(P, n - 1)
         IN  shorter \cup {t \o q : t \in shorter, q \in P}

NonStrings == {JUndef, JNull, JNum(<<"5">>), JNum(<<"0">>), JArr(<<>>), JObj(<<>>)}

\* values of a free-text field
CleanValues == {JStr(t) : t \in PieceTexts(CleanPieces, MaxPieces)} \cup NonStrings
ConstraintValues == {JStr(t) : t \in PieceTexts(ConstraintPieces, MaxPieces)} \cup NonStrings
SampleValues == {JStr(t) : t \in PieceTexts(SamplePieces, MaxPieces)} \cup NonStrings

\* elements of an array field
ItemValues ==
    {JStr(t) : t \in {<<>>, <<"x">>, <<SP, "x">>, EscapedNewline2,
                      <<BS>> \o EscapedNewline2, NoteLabel \o <<"x">>}}
    \cup {JNum(<<"7">>), JNull}

RECURSIVE ItemSeqs(_)
ItemSeqs(n) ==
    IF n = 0 THEN {<<>>}
    ELSE LET shorter == ItemSeqs(n - 1)
         IN  shorter \cup {Append(q, v) : q \in shorter, v \in ItemValues}

\* values of an array field: arrays, JSON texts of arrays, other texts, non-strings
ArrayValues ==
    {JArr(q) : q \in ItemSeqs(MaxItems)}
    \cup {JStr(Stringify(JArr(q))) : q \in ItemSeqs(MaxItems)}
    \cup {JStr(<<"x">>), JStr(<<>>), JStr(Stringify(JObj(<<>>)))}
    \cup NonStrings

EasyText == <<"E", "a", "s", "y">>

NoTestCases == [t |-> "undef", s |-> <<>>, sample_input |-> JUndef, sample_output |-> JUndef,
                hidden_inputs |-> JUndef, hidden_outputs |-> JUndef]

BaseTestCases == [t |-> "obj", s |-> <<>>, sample_input |-> JStr(<<"1">>),
                  sample_output |-> JStr(<<"1">>),
                  hidden_inputs |-> JArr(<<JStr(<<"1">>)>>),
                  hidden_outputs |-> JArr(<<JStr(<<"1">>)>>)]

NoMetadata == [t |-> "undef", s |-> <<>>, tags |-> JUndef, topic_category |-> JUndef,
               time_complexity |-> JUndef, space_complexity |-> JUndef,
               expected_solve_time_minutes |-> JUndef, mastery_indicators |-> JUndef,
               common_approaches |-> JUndef, common_mistakes |-> JUndef]

BaseMetadata == [NoMetadata EXCEPT !.t = "obj"]

\* a well-formed variant; the inputs differ from it in one field
BaseVariant == [title |-> JStr(<<"T">>), description |-> JStr(<<"x">>),
                difficulty |-> JStr(EasyText), hint |-> JUndef,
                input_format |-> JUndef, output_format |-> JUndef,
                constraints |-> JUndef, tags |-> JArr(<<JStr(<<"a">>)>>),
                test_cases |-> BaseTestCases, metadata |-> BaseMetadata]

\* test_cases / metadata that is not an object
NonObjectKinds == {[t |-> "undef", s |-> <<>>], [t |-> "lit", s |-> JNull.s],
                   [t |-> "str", s |-> <<"x">>], [t |-> "num", s |-> <<"5">>]}

SmallArrayValues ==
    {JArr(<<>>), JArr(<<JStr(EscapedNewline2)>>), JStr(Stringify(JArr(<<JStr(<<"x">>)>>))),
     JStr(<<"x">>), JUndef, JNull}

NormInputs ==
    {[BaseVariant EXCEPT !.description = v] : v \in CleanValues}
    \cup {[BaseVariant EXCEPT !.hint = v] : v \in CleanValues}
    \cup {[BaseVariant EXCEPT !.input_format = v] : v \in CleanValues}
    \cup {[BaseVariant EXCEPT !.output_format = v] : v \in CleanValues}
    \cup {[BaseVariant EXCEPT !.constraints = v] : v \in ConstraintValues}
    \cup {[BaseVariant EXCEPT !.tags = v] : v \in ArrayValues}
    \cup {[BaseVariant EXCEPT !.test_cases.sample_input = v] : v \in SampleValues}
    \cup {[BaseVariant EXCEPT !.test_cases.hidden_inputs = v] : v \in ArrayValues}
    \cup {[BaseVariant EXCEPT !.test_cases.hidden_outputs = v] : v \in ArrayValues}
    \cup {[BaseVariant EXCEPT !.test_cases = [NoTestCases EXCEPT !.t = k.t, !.s = k.s]] :
            k \in NonObjectKinds}
    \cup {[BaseVariant EXCEPT !.test_cases = [NoTestCases EXCEPT !.t = "arr"]]}
    \cup {[BaseVariant EXCEPT !.metadata = [NoMetadata EXCEPT !.t = k.t, !.s = k.s]] :
            k \in NonObjectKinds}
    \cup {[BaseVariant EXCEPT !.metadata.mastery_indicators = v] : v \in SmallArrayValues}
    \cup {[BaseVariant EXCEPT !.metadata.common_approaches = v] : v \in SmallArrayValues}
    \cup {[BaseVariant EXCEPT !.metadata.common_mistakes = v] : v \in SmallArrayValues}
    \cup {[BaseVariant EXCEPT !.metadata.tags = v] : v \in SmallArrayValues}

\* ------------------------------------------------------------------------
\* validateAndFixVariant, applied once and then to its own result
\* ------------------------------------------------------------------------
\* the normalizer's variables in a specification that does not run it
NormIdle ==
    /\ nv = JUndef
    /\ npc = "idle"
    /\ nres1 = JUndef
    /\ nres2 = JUndef

\* enrichMetadata's variables in a specification that does not run it
EnrichIdle ==
    /\ ev = JUndef
    /\ ernd = [n |-> 0, perm |-> <<>>]
    /\ enpc = "idle"
    /\ eres = JUndef

\* the write endpoint's variables in a specification that does not run it
WriteHandlerIdle ==
    /\ wreq = [backend |-> "none", header |-> <<>>, kind |-> "unreadable",
               body |-> [id |-> 0, title |-> FALSE, difficulty |-> "absent",
                         question |-> FALSE, metadata |-> FALSE]]
    /\ wpc = "idle"
    /\ wrows = {}
    /\ wcontent = <<>>
    /\ wresponse = [status |-> 0, message |-> "none", data |-> 0]

WriteIdle == API_KEY = <<>> /\ WriteHandlerIdle

\* the two requests' variables in a specification that does not run them
RaceIdle ==
    /\ rreq = <<>>
    /\ rpc = <<>>
    /\ rrows = {}
    /\ rresp = <<>>

\* the read endpoint's variables in a specification that does not run it
ReadIdle ==
    /\ greq = <<>>
    /\ gpc = "idle"
    /\ gtable = {}
    /\ gresp = <<>>

\* the resolution's variables in a specification that does not run it
ResolveIdle ==
    /\ modelSelection = <<>>
    /\ selpc = "idle"
    /\ selProvider = "none"
    /\ selModel = <<>>

Normalize ==
    /\ npc = "input"
    /\ LET r == validateAndFixVariant(nv) IN
        /\ npc' = IF r.thrown THEN "thrown" ELSE "once"
        /\ nres1' = r.v
    /\ UNCHANGED <<nv, nres2, extVars, genVars, enrVars, wrVars, selVars, raceVars, readVars>>

NormalizeAgain ==
    /\ npc = "once"
    /\ LET r == validateAndFixVariant(nres1) IN
        /\ npc' = IF r.thrown THEN "thrown" ELSE "twice"
        /\ nres2' = r.v
    /\ UNCHANGED <<nv, nres1, extVars, genVars, enrVars, wrVars, selVars, raceVars, readVars>>

\* ------------------------------------------------------------------------
\* Metadata enrichment
\* ------------------------------------------------------------------------
\* text t contains word w
Includes(t, w) == \E j \in 1..(Len(t) - Len(w) + 1) : SubSeq(t, j, j + Len(w) - 1) = w

\* t.toLowerCase()
LowerText(t) == [j \in 1..Len(t) |-> LowerChar(t[j])]

\* the rules of inferTopicCategory in source order: [category, keywords]
TopicRules == <<
    [category |-> <<"A", "r", "r", "a", "y", "s">>,
     keywords |-> {<<"a", "r", "r", "a", "y">>,
                  <<"s", "u", "b", "a", "r", "r", "a", "y">>,
                  <<"s", "o", "r", "t", "i", "n", "g">>,
                  <<"r", "o", "t", "a", "t", "e">>}],
    [category |-> <<"S", "t", "r", "i", "n", "g", "s">>,
     keywords |-> {<<"s", "t", "r", "i", "n", "g">>,
                  <<"p", "a", "l", "i", "n", "d", "r", "o", "m", "e">>,
                  <<"s", "u", "b", "s", "t", "r", "i", "n", "g">>,
                  <<"a", "n", "a", "g", "r", "a", "m">>}],
    [category |-> <<"T", "r", "e", "e", "s">>,
     keywords |-> {<<"t", "r", "e", "e">>,
                  <<"b", "s", "t">>,
                  <<"b", "i", "n", "a", "r", "y", " ", "t", "r", "e", "e">>,
                  <<"t", "r", "i", "e">>}],
    [category |-> <<"G", "r", "a", "p", "h", "s">>,
     keywords |-> {<<"g", "r", "a", "p", "h">>,
                  <<"d", "f", "s">>,
                  <<"b", "f", "s">>,
                  <<"p", "a", "t", "h">>}],
    [category |-> <<"D", "y", "n", "a", "m", "i", "c", " ", "P", "r", "o", "g", "r", "a", "m", "m", "i", "n", "g">>,
     keywords |-> {<<"d", "p">>,
                  <<"d", "y", "n", "a", "m", "i", "c", " ", "p", "r", "o", "g", "r", "a", "m", "m", "i", "n", "g">>,
                  <<"m", "e", "m", "o", "i", "z", "a", "t", "i", "o", "n">>}],
    [category |-> <<"S", "e", "a", "r", "c", "h", "i", "n", "g">>,
     keywords |-> {<<"s", "e", "a", "r", "c", "h">>,
                  <<"b", "i", "n", "a", "r", "y", " ", "s", "e", "a", "r", "c", "h">>}],
    [category |-> <<"T", "w", "o", " ", "P", "o", "i", "n", "t", "e", "r", "s">>,
     keywords |-> {<<"t", "w", "o", " ", "p", "o", "i", "n", "t", "e", "r", "s">>,
                  <<"s", "l", "i", "d", "i", "n", "g", " ", "w", "i", "n", "d", "o", "w">>}],
    [category |-> <<"L", "i", "n", "k", "e", "d", " ", "L", "i", "s", "t", "s">>,
     keywords |-> {<<"l", "i", "n", "k", "e", "d", " ", "l", "i", "s", "t">>,
                  <<"n", "o", "d", "e">>}],
    [category |-> <<"S", "t", "a", "c", "k", "s", " ", "&", " ", "Q", "u", "e", "u", "e", "s">>,
     keywords |-> {<<"s", "t", "a", "c", "k">>,
                  <<"q", "u", "e", "u", "e">>}],
    [category |-> <<"H", "a", "s", "h", " ", "T", "a", "b", "l", "e", "s">>,
     keywords |-> {<<"h", "a", "s", "h", " ", "m", "a", "p">>,
                  <<"h", "a", "s", "h", " ", "t", "a", "b", "l", "e">>,
                  <<"s", "e", "t">>}],
    [category |-> <<"H", "e", "a", "p", "s">>,
     keywords |-> {<<"h", "e", "a", "p">>,
                  <<"p", "r", "i", "o", "r", "i", "t", "y", " ", "q", "u", "e", "u", "e">>}],
    [category |-> <<"M", "a", "t", "r", "i", "x">>,
     keywords |-> {<<"m", "a", "t", "r", "i", "x">>,
                  <<"g", "r", "i", "d">>}],
    [category |-> <<"B", "i", "t", " ", "M", "a", "n", "i", "p", "u", "l", "a", "t", "i", "o", "n">>,
     keywords |-> {<<"b", "i", "t", " ", "m", "a", "n", "i", "p", "u", "l", "a", "t", "i", "o", "n">>,
                  <<"b", "i", "t", "s">>}] >>


GeneralText == <<"G", "e", "n", "e", "r", "a", "l">>
ONText == <<"O", "(", "N", ")">>
O1Text == <<"O", "(", "1", ")">>
OPlaceholder == <<"O", "(", ".", ".", ".", ")">>
MediumText == <<"M", "e", "d", "i", "u", "m">>
HardText == <<"H", "a", "r", "d">>

\* x?.toLowerCase() || '' : [thrown, text]; a value that is neither nullish
\* nor a string has no toLowerCase and the call throws a TypeError
LowerOrEmpty(v) ==
    IF IsNullish(v) THEN [thrown |-> FALSE, text |-> <<>>]
    ELSE IF v.t = "str" THEN [thrown |-> FALSE, text |-> LowerText(v.s)]
    ELSE [thrown |-> TRUE, text |-> <<>>]

\* tags.map(t => t.toLowerCase()).join(' ')
RECURSIVE JoinLowerTags(_, _)
JoinLowerTags(kids, j) ==
    IF j > Len(kids) THEN <<>>
    ELSE (IF j > 1 THEN <<SP>> ELSE <<>>) \o LowerText(kids[j].v.s)
         \o JoinLowerTags(kids, j + 1)

\* the rules tried from the last to the first
RECURSIVE LastRule(_, _)
LastRule(text, k) ==
    IF k > Len(TopicRules) THEN GeneralText
    ELSE IF \E w \in TopicRules[Len(TopicRules) + 1 - k].keywords : Includes(text, w)
    THEN TopicRules[Len(TopicRules) + 1 - k].category
    ELSE LastRule(text, k + 1)

\* the first rule one of whose keywords occurs in the text, General if none
RECURSIVE FirstRule(_, _)
FirstRule(text, k) ==
    IF k > Len(TopicRules) THEN GeneralText
    ELSE IF \E w \in TopicRules[k].keywords : Includes(text, w)
    THEN TopicRules[k].category
    ELSE FirstRule(text, k + 1)

\* inferTopicCategory(variant): [thrown, text]
inferTopicCategory(input) ==
    Bind(input, LAMBDA variant :
    Bind(LowerOrEmpty(variant.title), LAMBDA title :
    Bind(LowerOrEmpty(variant.description), LAMBDA description :
        IF \/ title.thrown
           \/ description.thrown
           \/ /\ variant.tags.t = "arr"
              /\ \E j \in 1..Len(variant.tags.kids) : variant.tags.kids[j].v.t # "str"
        THEN [thrown |-> TRUE, text |-> <<>>]
        ELSE Bind(title.text \o <<SP>> \o description.text \o <<SP>>
                    \o (IF variant.tags.t = "arr"
                        THEN JoinLowerTags(variant.tags.kids, 1)
                        ELSE <<>>),
                  LAMBDA text : [thrown |-> FALSE, text |-> FirstRule(text, 1)]))))

\* the pool of canonical indicator phrases
commonIndicators == <<
    <<"H", "a", "n", "d", "l", "e", "s", " ", "e", "d", "g", "e", " ", "c", "a", "s", "e", "s", " ", "c", "o", "n", "s", "i", "s", "t", "e", "n", "t", "l", "y">>,
    <<"U", "n", "d", "e", "r", "s", "t", "a", "n", "d", "s", " ", "t", "i", "m", "e", "-", "s", "p", "a", "c", "e", " ", "t", "r", "a", "d", "e", "-", "o", "f", "f", "s">>,
    <<"K", "n", "o", "w", "s", " ", "o", "p", "t", "i", "m", "a", "l", " ", "a", "l", "g", "o", "r", "i", "t", "h", "m", "i", "c", " ", "p", "a", "t", "t", "e", "r", "n", "s">>,
    <<"I", "m", "p", "l", "e", "m", "e", "n", "t", "s", " ", "i", "n", "p", "u", "t", " ", "p", "a", "r", "s", "i", "n", "g", " ", "c", "l", "e", "a", "n", "l", "y">>,
    <<"A", "v", "o", "i", "d", "s", " ", "o", "f", "f", "-", "b", "y", "-", "o", "n", "e", " ", "e", "r", "r", "o", "r", "s">>,
    <<"U", "n", "d", "e", "r", "s", "t", "a", "n", "d", "s", " ", "r", "e", "c", "u", "r", "s", "i", "o", "n", " ", "d", "e", "p", "t", "h", " ", "l", "i", "m", "i", "t", "s">>,
    <<"A", "p", "p", "l", "i", "e", "s", " ", "a", "p", "p", "r", "o", "p", "r", "i", "a", "t", "e", " ", "d", "a", "t", "a", " ", "s", "t", "r", "u", "c", "t", "u", "r", "e", "s">>,
    <<"I", "d", "e", "n", "t", "i", "f", "i", "e", "s", " ", "p", "r", "o", "b", "l", "e", "m", " ", "t", "y", "p", "e", " ", "c", "o", "r", "r", "e", "c", "t", "l", "y">> >>

MinIndicators == 3
IndicatorSpread == 4

\* the outcomes of the random source: numIndicators = floor(random * 4) + 3
\* and the order the random comparator leaves the pool in
RandomCounts == MinIndicators..(MinIndicators + IndicatorSpread - 1)

\* a loop that runs while i <= numIndicators
SelectIndicatorsInclusive(rnd) ==
    LET n == IF rnd.n + 1 < Len(rnd.perm) THEN rnd.n + 1 ELSE Len(rnd.perm)
    IN  StrArray([j \in 1..n |-> commonIndicators[rnd.perm[j]]])

\* the first numIndicators phrases of the shuffled pool
SelectIndicators(rnd) ==
    LET n == IF rnd.n < Len(rnd.perm) THEN rnd.n ELSE Len(rnd.perm)
    IN  StrArray([j \in 1..n |-> commonIndicators[rnd.perm[j]]])

\* a switch without the case for Hard
SolveTimeNoHard(difficulty) ==
    IF difficulty = JStr(EasyText) THEN JNum(<<"7">>)
    ELSE JNum(<<"1", "5">>)

\* the value the switch on difficulty assigns
SolveTime(difficulty) ==
    IF difficulty = JStr(EasyText) THEN JNum(<<"7">>)
    ELSE IF difficulty = JStr(MediumText) THEN JNum(<<"1", "5">>)
    ELSE IF difficulty = JStr(HardText) THEN JNum(<<"3", "0">>)
    ELSE JNum(<<"1", "5">>)

\* enrichedVariant.metadata = enrichedVariant.metadata || {}
MetadataOrEmpty(md) ==
    IF Truthy([t |-> md.t, s |-> md.s, kids |-> <<>>]) THEN md ELSE BaseMetadata

\* a step 0 that copies the top-level tags only into an empty metadata.tags
WithTagsIfEmpty(md, tags) ==
    [md EXCEPT !.tags =
        IF md.tags.t = "arr" /\ Len(md.tags.kids) > 0 THEN md.tags
        ELSE IF tags.t = "arr" /\ Len(tags.kids) > 0 THEN tags
        ELSE IF ~Truthy(md.tags) THEN JArr(<<>>) ELSE md.tags]

\* step 0: the top-level tags, when a non-empty array, replace metadata.tags
WithTags(md, tags) ==
    [md EXCEPT !.tags =
        IF tags.t = "arr" /\ Len(tags.kids) > 0 THEN tags
        ELSE IF ~Truthy(md.tags) THEN JArr(<<>>) ELSE md.tags]

\* step 1 runs inferTopicCategory
NeedsTopic(md) == ~Truthy(md.topic_category) \/ md.topic_category = JStr(GeneralText)

\* steps 1-5 on the metadata md, topic being the inferred category
WithDefaults(md, topic, difficulty, rnd) ==
    [md EXCEPT
        !.topic_category =
            IF NeedsTopic(md) THEN JStr(topic) ELSE md.topic_category,
        !.time_complexity =
            IF ~Truthy(md.time_complexity) \/ md.time_complexity = JStr(OPlaceholder)
            THEN JStr(ONText) ELSE md.time_complexity,
        !.space_complexity =
            IF ~Truthy(md.space_complexity) \/ md.space_complexity = JStr(OPlaceholder)
            THEN JStr(O1Text) ELSE md.space_complexity,
        !.expected_solve_time_minutes =
            IF ~Truthy(md.expected_solve_time_minutes)
            THEN SolveTime(difficulty)
            ELSE md.expected_solve_time_minutes,
        !.mastery_indicators =
            IF md.mastery_indicators.t # "arr" \/ Len(md.mastery_indicators.kids) = 0
            THEN SelectIndicators(rnd)
            ELSE md.mastery_indicators]

\* enrichMetadata(variant) under the random outcome rnd: [thrown, v].
\* A truthy metadata that is a primitive cannot take properties (module code
\* is strict): the first assignment to metadata.tags throws.
enrichMetadata(input, rnd) ==
    Bind(input, LAMBDA variant :
        IF /\ Truthy([t |-> variant.metadata.t, s |-> variant.metadata.s, kids |-> <<>>])
           /\ ~IsObjectLike(variant.metadata.t)
        THEN [thrown |-> TRUE, v |-> variant]
        ELSE Bind(WithTags(MetadataOrEmpty(variant.metadata), variant.tags), LAMBDA md :
             Bind(IF NeedsTopic(md) THEN inferTopicCategory(variant)
                  ELSE [thrown |-> FALSE, text |-> <<>>],
                  LAMBDA topic :
                    IF topic.thrown THEN [thrown |-> TRUE, v |-> variant]
                    ELSE [thrown |-> FALSE,
                          v |-> [variant EXCEPT !.metadata =
                                    WithDefaults(md, topic.text, variant.difficulty, rnd)]])))

\* the origin of a text that was not built from an object
NoOrigin == [kind |-> "arbitrary", obj |-> JNone, prefix |-> <<>>, suffix |-> <<>>]

\* the extractor's variables in a specification that does not run it
ExtractIdle ==
    /\ raw = <<>>
    /\ origin = NoOrigin
    /\ epc = "idle"
    /\ s = <<>>
    /\ i = 0
    /\ braceCount = 0
    /\ inString = FALSE
    /\ escapeNext = FALSE
    /\ startIdx = -1
    /\ endIdx = -1
    /\ result = <<>>

\* ------------------------------------------------------------------------
\* POST /api/generate-question
\* ------------------------------------------------------------------------
MistralWord == <<"m", "i", "s", "t", "r", "a", "l">>
GeminiWord == <<"g", "e", "m", "i", "n", "i">>
GoogleWord == <<"g", "o", "o", "g", "l", "e">>

\* getProviderFromModel(modelSelection); "none" stands for null
getProviderFromModel(sel) ==
    LET lower == LowerText(sel) IN
    IF Includes(lower, MistralWord) THEN "mistral"
    ELSE IF Includes(lower, GeminiWord) \/ Includes(lower, GoogleWord) THEN "gemini"
    ELSE "none"

\* a resolution that compares the selection as it was typed
getModelFromSelectionAsTyped(sel) ==
    IF Includes(sel, <<"m", "i", "s", "t", "r", "a", "l", "-", "s", "m", "a", "l", "l">>) THEN <<"m", "i", "s", "t", "r", "a", "l", "-", "s", "m", "a", "l", "l", "-", "l", "a", "t", "e", "s", "t">>
    ELSE IF Includes(sel, <<"m", "i", "s", "t", "r", "a", "l", "-", "m", "e", "d", "i", "u", "m">>) THEN <<"m", "i", "s", "t", "r", "a", "l", "-", "m", "e", "d", "i", "u", "m", "-", "l", "a", "t", "e", "s", "t">>
    ELSE IF Includes(sel, <<"m", "i", "s", "t", "r", "a", "l", "-", "l", "a", "r", "g", "e">>) THEN <<"m", "i", "s", "t", "r", "a", "l", "-", "l", "a", "r", "g", "e", "-", "l", "a", "t", "e", "s", "t">>
    ELSE IF Includes(sel, MistralWord) THEN <<"m", "i", "s", "t", "r", "a", "l", "-", "s", "m", "a", "l", "l", "-", "l", "a", "t", "e", "s", "t">>
    ELSE IF Includes(sel, GeminiWord) THEN <<"g", "e", "m", "i", "n", "i", "-", "2", ".", "5", "-", "f", "l", "a", "s", "h">>
    ELSE IF Includes(sel, GoogleWord) THEN <<"g", "e", "m", "i", "n", "i", "-", "2", ".", "5", "-", "f", "l", "a", "s", "h">>
    ELSE sel

\* getModelFromSelection(modelSelection)
getModelFromSelection(sel) ==
    LET lower == LowerText(sel) IN
    IF Includes(lower, <<"m", "i", "s", "t", "r", "a", "l", "-", "s", "m", "a", "l", "l">>) THEN <<"m", "i", "s", "t", "r", "a", "l", "-", "s", "m", "a", "l", "l", "-", "l", "a", "t", "e", "s", "t">>
    ELSE IF Includes(lower, <<"m", "i", "s", "t", "r", "a", "l", "-", "m", "e", "d", "i", "u", "m">>) THEN <<"m", "i", "s", "t", "r", "a", "l", "-", "m", "e", "d", "i", "u", "m", "-", "l", "a", "t", "e", "s", "t">>
    ELSE IF Includes(lower, <<"m", "i", "s", "t", "r", "a", "l", "-", "l", "a", "r", "g", "e">>) THEN <<"m", "i", "s", "t", "r", "a", "l", "-", "l", "a", "r", "g", "e", "-", "l", "a", "t", "e", "s", "t">>
    ELSE IF Includes(lower, MistralWord) THEN <<"m", "i", "s", "t", "r", "a", "l", "-", "s", "m", "a", "l", "l", "-", "l", "a", "t", "e", "s", "t">>
    ELSE IF Includes(lower, GeminiWord) THEN <<"g", "e", "m", "i", "n", "i", "-", "2", ".", "5", "-", "f", "l", "a", "s", "h">>
    ELSE IF Includes(lower, GoogleWord) THEN <<"g", "e", "m", "i", "n", "i", "-", "2", ".", "5", "-", "f", "l", "a", "s", "h">>
    ELSE sel

\* the model selections of the requests; <<>> stands for a missing one
ModelSelections == {<<>>, <<"M", "i", "s", "t", "r", "a", "l", "-", "L", "a", "r", "g", "e">>, <<"g", "e", "m", "i", "n", "i", "-", "p", "r", "o">>, <<"g", "p", "t", "-", "4">>}

\* temperatures are counted in tenths
DefaultTemperature == 7
TemperatureStep == 1
DefaultCount == 3
MinCount == 1
MaxCount == 5

\* the counts of the requests: missing, not a number, or a number
CountInputs ==
    {[given |-> FALSE, number |-> FALSE, n |-> 0], [given |-> TRUE, number |-> FALSE, n |-> 0]}
    \cup {[given |-> TRUE, number |-> TRUE, n |-> n] : n \in {0, 1, 5, 6, 10, 11}}

TemperatureInputs ==
    {[given |-> FALSE, n |-> 0], [given |-> TRUE, n |-> 0]}

\* apiKey is missing, a text, or a truthy value that is not a text
ApiKeyInputs == {"absent", "text", "number"}

\* a body request.json() cannot read
UnreadableRequest ==
    [readable |-> FALSE, topic |-> FALSE, model |-> <<>>, apiKey |-> "absent",
     count |-> [given |-> FALSE, number |-> FALSE, n |-> 0],
     temperature |-> [given |-> FALSE, n |-> 0]]

Requests ==
    [readable : {TRUE}, topic : BOOLEAN, model : ModelSelections, apiKey : ApiKeyInputs,
     count : CountInputs, temperature : TemperatureInputs]
    \cup {UnreadableRequest}

\* the destructuring defaults of the request body
CountOf(r) == IF r.count.given THEN r.count ELSE [given |-> TRUE, number |-> TRUE, n |-> DefaultCount]
TemperatureOf(r) == IF r.temperature.given THEN r.temperature.n ELSE DefaultTemperature

\* typeof count !== "number" || count < 1 || count > 5
CountRejected(c) == ~c.number \/ c.n < MinCount \/ c.n > MaxCount

\* a retry that lowers the temperature of every provider and does not clamp it
RetryTemperatureLowered(provider, temperature) == temperature - TemperatureStep

\* the temperature of the retry
RetryTemperature(provider, temperature) ==
    IF provider = "mistral" THEN temperature
    ELSE IF temperature - TemperatureStep > 0 THEN temperature - TemperatureStep ELSE 0

\* the variants a provider may answer with
GoodVariant == BaseVariant
NoTitleVariant == [BaseVariant EXCEPT !.title = JUndef]
BadSampleVariant == [BaseVariant EXCEPT !.test_cases.sample_input = JNum(<<"5">>)]
\* a description that is only a label, and a difficulty outside the enumeration
LabelOnlyVariant == [BaseVariant EXCEPT !.description = JStr(NoteLabel)]
OddDifficultyVariant == [BaseVariant EXCEPT !.difficulty = JStr(<<"x">>)]
\* a sample_input of backslash backslash backslash n, which one pass of the
\* replacement leaves as backslash backslash n
EscapedSampleVariant ==
    [BaseVariant EXCEPT !.test_cases.sample_input = JStr(<<BS>> \o EscapedNewline2)]
GenVariants == {GoodVariant, NoTitleVariant}

RECURSIVE VariantSeqs(_)
VariantSeqs(n) ==
    IF n = 0 THEN {<<>>}
    ELSE LET shorter == VariantSeqs(n - 1)
         IN  shorter \cup {Append(q, v) : q \in shorter, v \in GenVariants}

\* texts of the provider: the variants array of a text is written empty, and
\* its elements are chosen beside the text, as the payload
VariantsKey == <<"v", "a", "r", "i", "a", "n", "t", "s">>
TextJsonVariants == <<"{", "\"", "v", "a", "r", "i", "a", "n", "t", "s", "\"", ":", "[", "]", "}">>
TextJsonOther == <<"{", "\"", "a", "\"", ":", "1", "}">>
TextJsonNotArray == <<"{", "\"", "v", "a", "r", "i", "a", "n", "t", "s", "\"", ":", "1", "}">>
TextJsonNull == <<"n", "u", "l", "l">>
TextEmbedded == <<"x", " ", "{", "\"", "v", "a", "r", "i", "a", "n", "t", "s", "\"", ":", "[", "]", "}", " ", "x">>
TextEmbeddedOther == <<"x", " ", "{", "\"", "a", "\"", ":", "1", "}">>
TextTrailingComma == <<"{", "\"", "v", "a", "r", "i", "a", "n", "t", "s", "\"", ":", "[", "]", ",", "}">>
TextNoObject == <<"x">>

OkTexts == {TextJsonVariants, TextEmbedded}
FailTexts == {TextJsonOther, TextJsonNotArray, TextJsonNull, TextEmbeddedOther,
              TextTrailingComma, TextNoObject}

\* what callAIProviderWithFallback may do: throw, return no text, return a text
ProviderResults ==
    {[kind |-> "throws", text |-> <<>>], [kind |-> "empty", text |-> <<>>]}
    \cup {[kind |-> "text", text |-> t] : t \in OkTexts \cup FailTexts}

\* the elements the variants array of a text may hold: every sequence of
\* GenVariants up to MaxVariants, two with a variant that fails after the fix,
\* and two with a variant that passes every check of the handler
Payloads ==
    VariantSeqs(MaxVariants)
    \cup {<<BadSampleVariant>>, <<GoodVariant, BadSampleVariant>>}
    \cup {<<EscapedSampleVariant>>}
    \cup {<<LabelOnlyVariant>>, <<OddDifficultyVariant>>}

\* parsed.variants && Array.isArray(parsed.variants); reading a property of
\* null throws, which the callers treat like a missing array
HasVariantsArray(val) ==
    /\ val.t = "obj"
    /\ \E j \in 1..Len(val.kids) : val.kids[j].k = VariantsKey /\ val.kids[j].v.t = "arr"

\* the parsing part of oneTry: TRUE iff it returns the parsed response
OneTryParses(text) ==
    \E trimmed \in {Trim(text)} :
        \/ \E parsed \in {JsonParse(trimmed)} : parsed.ok /\ HasVariantsArray(parsed.val)
        \/ \E extracted \in {ExtractJSONObject(trimmed)} :
                /\ ~extracted.thrown
                /\ \E parsed \in {JsonParse(extracted.text)} :
                        parsed.ok /\ HasVariantsArray(parsed.val)

\* oneTry for the request r and the provider's answer out: TRUE iff it returns
OneTrySucceeds(r, out) ==
    /\ getProviderFromModel(r.model) # "none"
    /\ r.apiKey = "text"
    /\ out.kind = "text"
    /\ out.text # <<>>
    /\ OneTryParses(out.text)

\* oneTry reaches the provider unless the model is unsupported or apiKey.trim()
\* throws
OneTryCalls(r) ==
    IF getProviderFromModel(r.model) # "none" /\ r.apiKey = "text" THEN 1 ELSE 0

\* one call of oneTry: its arguments, what it resolves them to, and whether it
\* returned
TryRecord(r, temp, ok) ==
    [temp |-> temp, count |-> CountOf(r).n, provider |-> getProviderFromModel(r.model),
     model |-> getModelFromSelection(r.model), ok |-> ok]

\* the outcomes of the random source the handler is run with
IdentityOrder == [j \in 1..Len(commonIndicators) |-> j]
GenRandoms == {[n |-> MinIndicators, perm |-> IdentityOrder]}

NoResponse == [status |-> 0, shape |-> "none"]

\* the handler's variables in a specification that does not run it
GenIdle ==
    /\ req = UnreadableRequest
    /\ xApiKey = <<>>
    /\ pc = "idle"
    /\ tries = <<>>
    /\ variants = <<>>
    /\ idx = 0
    /\ inserted = <<>>
    /\ errors = <<>>
    /\ store = <<>>
    /\ seqResets = 0
    /\ providerCalls = 0
    /\ response = NoResponse

InitGen ==
    /\ RaceIdle
    /\ ReadIdle
    /\ req \in Requests
    /\ xApiKey = <<>>
    /\ pc = "start"
    /\ tries = <<>>
    /\ variants = <<>>
    /\ idx = 0
    /\ inserted = <<>>
    /\ errors = <<>>
    /\ store = <<>>
    /\ seqResets = 0
    /\ providerCalls = 0
    /\ response = NoResponse
    /\ ExtractIdle
    /\ NormIdle
    /\ EnrichIdle
    /\ WriteIdle
    /\ ResolveIdle

Respond(status, shape) ==
    /\ response' = [status |-> status, shape |-> shape]
    /\ pc' = "done"

\* request.json() and the checks of topic, selectedAIModel and apiKey
CheckRequired ==
    /\ pc = "start"
    /\ IF ~req.readable THEN Respond(500, "fatal")
       ELSE IF ~req.topic \/ req.model = <<>> \/ req.apiKey = "absent"
       THEN Respond(400, "error")
       ELSE pc' = "reset" /\ response' = response
    /\ UNCHANGED <<req, xApiKey, tries, variants, idx, inserted, errors, store, seqResets,
                   providerCalls, extVars, normVars, enrVars, wrVars, selVars,
                   raceVars, readVars>>

\* await resetProblemsSequence(), then the check of count
ResetAndCheckCount ==
    /\ pc = "reset"
    /\ seqResets' = seqResets + 1
    /\ \E resetOk \in BOOLEAN :
        IF ~resetOk THEN Respond(500, "fatal")
        ELSE IF CountRejected(CountOf(req)) THEN Respond(400, "error")
        ELSE pc' = "try1" /\ response' = response
    /\ UNCHANGED <<req, xApiKey, tries, variants, idx, inserted, errors, store, providerCalls,
                   extVars, normVars, enrVars, wrVars, selVars, raceVars, readVars>>

\* the first oneTry
FirstTry ==
    /\ pc = "try1"
    /\ providerCalls' = providerCalls + OneTryCalls(req)
    /\ \E out \in ProviderResults :
        LET ok == OneTrySucceeds(req, out) IN
        /\ tries' = Append(tries, TryRecord(req, TemperatureOf(req), ok))
        /\ IF ok
           THEN pc' = "loop" /\ \E payload \in Payloads : variants' = payload
           ELSE pc' = "try2" /\ variants' = variants
    /\ UNCHANGED <<req, xApiKey, idx, inserted, errors, store, seqResets, response, extVars,
                   normVars, enrVars, wrVars, selVars, raceVars, readVars>>

\* a retry that is made again when it fails
RetryAgain ==
    /\ pc = "try2"
    /\ providerCalls' = providerCalls + OneTryCalls(req)
    /\ \E out \in ProviderResults :
        LET ok == OneTrySucceeds(req, out)
            retryTemp == RetryTemperature(getProviderFromModel(req.model), TemperatureOf(req))
        IN
        /\ tries' = Append(tries, TryRecord(req, retryTemp, ok))
        /\ response' = response
        /\ IF ok
           THEN pc' = "loop" /\ \E payload \in Payloads : variants' = payload
           ELSE pc' = "try2" /\ variants' = variants
    /\ UNCHANGED <<req, xApiKey, idx, inserted, errors, store, seqResets, extVars, normVars,
                   enrVars, wrVars, selVars, raceVars, readVars>>

\* the retry in the catch block; its failure leaves the handler through the
\* outer catch
Retry ==
    /\ pc = "try2"
    /\ providerCalls' = providerCalls + OneTryCalls(req)
    /\ \E out \in ProviderResults :
        LET ok == OneTrySucceeds(req, out)
            retryTemp == RetryTemperature(getProviderFromModel(req.model), TemperatureOf(req))
        IN
        /\ tries' = Append(tries, TryRecord(req, retryTemp, ok))
        /\ IF ok
           THEN /\ pc' = "loop"
                /\ response' = response
                /\ \E payload \in Payloads : variants' = payload
           ELSE Respond(500, "fatal") /\ variants' = variants
    /\ UNCHANGED <<req, xApiKey, idx, inserted, errors, store, seqResets, extVars, normVars,
                   enrVars, wrVars, selVars, raceVars, readVars>>

\* the basic validation of one variant
MissingRequired(v) ==
    \/ ~Truthy(v.title)
    \/ ~Truthy(v.difficulty)
    \/ ~Truthy(v.description)
    \/ ~Truthy([t |-> v.metadata.t, s |-> v.metadata.s, kids |-> <<>>])
    \/ ~Truthy([t |-> v.test_cases.t, s |-> v.test_cases.s, kids |-> <<>>])

\* a re-validation that leaves out the checks of sample_input
RevalidationSkipsSample(v) ==
    LET tc == v.test_cases IN
    \/ ~IsObjectLike(tc.t)
    \/ tc.hidden_inputs.t # "arr"
    \/ \E j \in 1..Len(tc.hidden_inputs.kids) :
            \/ tc.hidden_inputs.kids[j].v.t # "str"
            \/ HasEscapedNewline2(tc.hidden_inputs.kids[j].v.s)
    \/ tc.hidden_outputs.t # "arr"
    \/ \E j \in 1..Len(tc.hidden_outputs.kids) : tc.hidden_outputs.kids[j].v.t # "str"

\* the re-validation after fixing: TRUE iff one of its checks throws
RevalidationFails(v) ==
    LET tc == v.test_cases IN
    \/ ~IsObjectLike(tc.t)
    \/ tc.sample_input.t # "str"
    \/ HasEscapedNewline2(tc.sample_input.s)
    \/ tc.hidden_inputs.t # "arr"
    \/ \E j \in 1..Len(tc.hidden_inputs.kids) :
            \/ tc.hidden_inputs.kids[j].v.t # "str"
            \/ HasEscapedNewline2(tc.hidden_inputs.kids[j].v.s)
    \/ tc.hidden_outputs.t # "arr"
    \/ \E j \in 1..Len(tc.hidden_outputs.kids) : tc.hidden_outputs.kids[j].v.t # "str"

\* the argument of insertQuestion
QuestionRow(v) ==
    [title |-> v.title, difficulty |-> v.difficulty, question |-> v.description,
     input_format |-> v.input_format, output_format |-> v.output_format,
     constraints |-> v.constraints, sample_input |-> v.test_cases.sample_input,
     sample_output |-> v.test_cases.sample_output, hint |-> v.hint,
     hidden_inputs |-> v.test_cases.hidden_inputs,
     hidden_outputs |-> v.test_cases.hidden_outputs, metadata |-> v.metadata]

\* an iteration that drops the error of a variant instead of recording it
ProcessVariantUnrecorded ==
    /\ pc = "loop"
    /\ idx < Len(variants)
    /\ idx' = idx + 1
    /\ \E rnd \in GenRandoms, dbOk \in BOOLEAN, v \in {variants[idx + 1]} :
       \E fixed \in {validateAndFixVariant(v)} :
       \E enriched \in {enrichMetadata(fixed.v, rnd)} :
        LET id == Len(store) + 1 IN
        IF \/ MissingRequired(v)
           \/ fixed.thrown
           \/ enriched.thrown
           \/ RevalidationFails(enriched.v)
           \/ ~dbOk
        THEN UNCHANGED <<store, inserted, errors>>
        ELSE /\ store' = Append(store, [id |-> id, row |-> QuestionRow(enriched.v)])
             /\ inserted' = Append(inserted, [id |-> id, title |-> enriched.v.title])
             /\ errors' = errors
    /\ UNCHANGED <<req, xApiKey, pc, tries, variants, seqResets, providerCalls, response, extVars,
                   normVars, enrVars, wrVars, selVars, raceVars, readVars>>

\* an iteration inside a transaction over the batch: the failure of a variant
\* undoes the insertions made before it
ProcessVariantRollsBack ==
    /\ pc = "loop"
    /\ idx < Len(variants)
    /\ idx' = idx + 1
    /\ \E rnd \in GenRandoms, dbOk \in BOOLEAN, v \in {variants[idx + 1]} :
       \E fixed \in {validateAndFixVariant(v)} :
       \E enriched \in {enrichMetadata(fixed.v, rnd)} :
        LET thrown ==
                IF MissingRequired(v) THEN "missing"
                ELSE IF fixed.thrown \/ enriched.thrown THEN "exception"
                ELSE IF RevalidationFails(enriched.v) THEN "revalidation"
                ELSE IF ~dbOk THEN "insert"
                ELSE "none"
            id == Len(store) + 1
        IN
        IF thrown # "none"
        THEN /\ errors' = Append(errors, [variant |-> idx + 1, error |-> thrown])
             /\ store' = <<>>
             /\ inserted' = <<>>
        ELSE /\ store' = Append(store, [id |-> id, row |-> QuestionRow(enriched.v)])
             /\ inserted' = Append(inserted, [id |-> id, title |-> enriched.v.title])
             /\ errors' = errors
    /\ UNCHANGED <<req, xApiKey, pc, tries, variants, seqResets, providerCalls, response,
                   extVars, normVars, enrVars, wrVars, selVars, raceVars, readVars>>

\* one iteration of the loop over the variants: validation, fix, enrichment,
\* re-validation and insertQuestion, with the catch that records the error
ProcessVariant ==
    /\ pc = "loop"
    /\ idx < Len(variants)
    /\ idx' = idx + 1
    /\ \E rnd \in GenRandoms, v \in {variants[idx + 1]} :
       \E fixed \in {validateAndFixVariant(v)} :
       \E enriched \in {enrichMetadata(fixed.v, rnd)} :
        LET thrown ==
                IF MissingRequired(v) THEN "missing"
                ELSE IF fixed.thrown \/ enriched.thrown THEN "exception"
                ELSE IF RevalidationFails(enriched.v) THEN "revalidation"
                ELSE "none"
            id == Len(store) + 1
        IN
        IF thrown # "none"
        THEN /\ errors' = Append(errors, [variant |-> idx + 1, error |-> thrown])
             /\ UNCHANGED <<store, inserted>>
        ELSE \E dbOk \in BOOLEAN :
                IF dbOk
                THEN /\ store' = Append(store, [id |-> id, row |-> QuestionRow(enriched.v)])
                     /\ inserted' = Append(inserted, [id |-> id, title |-> enriched.v.title])
                     /\ errors' = errors
                ELSE /\ errors' = Append(errors, [variant |-> idx + 1, error |-> "insert"])
                     /\ UNCHANGED <<store, inserted>>
    /\ UNCHANGED <<req, xApiKey, pc, tries, variants, seqResets, providerCalls, response, extVars,
                   normVars, enrVars, wrVars, selVars, raceVars, readVars>>

\* a response after the loop that reports success whatever was inserted
RespondBatchCreated ==
    /\ pc = "loop"
    /\ idx >= Len(variants)
    /\ Respond(201, "batch")
    /\ UNCHANGED <<req, xApiKey, tries, variants, idx, inserted, errors, store, seqResets,
                   providerCalls, extVars, normVars, enrVars, wrVars, selVars,
                   raceVars, readVars>>

\* the response after the loop
RespondBatch ==
    /\ pc = "loop"
    /\ idx >= Len(variants)
    /\ Respond(IF Len(inserted) > 0 THEN 201 ELSE 500, "batch")
    /\ UNCHANGED <<req, xApiKey, tries, variants, idx, inserted, errors, store, seqResets,
                   providerCalls, extVars, normVars, enrVars, wrVars, selVars,
                   raceVars, readVars>>

NextGen == CheckRequired \/ ResetAndCheckCount \/ FirstTry \/ Retry \/ ProcessVariant
           \/ RespondBatch

SpecGen == InitGen /\ [][NextGen]_vars

\* the requests of InitGen that leave the temperature to its default
InitGenFair == InitGen /\ ~req.temperature.given

\* the handler is one async function: each await resumes when its promise
\* settles, so a step that can be taken is taken
SpecGenFair == InitGenFair /\ [][NextGen]_vars /\ WF_vars(NextGen)

\* the handler run with the x-api-key header and the configured key varying:
\* complete requests for one variant of a supported model
AuthRequests ==
    {r \in Requests :
        /\ r.readable
        /\ r.topic
        /\ r.apiKey = "text"
        /\ getProviderFromModel(r.model) = "gemini"
        /\ r.count = [given |-> TRUE, number |-> TRUE, n |-> MinCount]
        /\ ~r.temperature.given}

InitGenAuth ==
    /\ RaceIdle
    /\ ReadIdle
    /\ req \in AuthRequests
    /\ xApiKey \in {<<>>, <<"k">>, <<"z">>}
    /\ API_KEY \in {<<>>, <<"k">>}
    /\ pc = "start"
    /\ tries = <<>>
    /\ variants = <<>>
    /\ idx = 0
    /\ inserted = <<>>
    /\ errors = <<>>
    /\ store = <<>>
    /\ seqResets = 0
    /\ providerCalls = 0
    /\ response = NoResponse
    /\ ExtractIdle
    /\ NormIdle
    /\ EnrichIdle
    /\ WriteHandlerIdle
    /\ ResolveIdle

SpecGenAuth == InitGenAuth /\ [][NextGen]_vars

\* ------------------------------------------------------------------------
\* enrichMetadata applied to one variant
\* ------------------------------------------------------------------------
\* every keyword of the rules
AllKeywords == UNION {TopicRules[k].keywords : k \in 1..Len(TopicRules)}

SortWord == <<"s", "o", "r", "t">>

\* texts of a title: no keyword, one keyword, one in upper case, the word
\* sort, and every two keywords side by side
KeywordTexts ==
    {<<"x">>, SortWord, <<"A", "R", "R", "A", "Y">>}
    \cup AllKeywords
    \cup {w1 \o <<SP>> \o w2 : w1 \in AllKeywords, w2 \in AllKeywords}

\* variants whose topic is inferred: the keywords stand in the title, in the
\* description or in the tags; one title is not a string
TopicVariants ==
    {[BaseVariant EXCEPT !.title = JStr(w)] : w \in KeywordTexts}
    \cup {[BaseVariant EXCEPT !.description = JStr(w)] : w \in AllKeywords}
    \cup {[BaseVariant EXCEPT !.title = JStr(w1), !.tags = JArr(<<JStr(<<"x">>), JStr(w2)>>)] :
            w1 \in {<<"x">>, <<"g", "r", "a", "p", "h">>}, w2 \in AllKeywords}
    \cup {[BaseVariant EXCEPT !.title = JNum(<<"5">>)],
          [BaseVariant EXCEPT !.title = JUndef, !.description = JUndef, !.tags = JUndef]}

\* mastery_indicators in the object form of the data model
IndicatorObject ==
    JObj(<<[k |-> <<"s", "o", "l", "v", "e", "_", "t", "i", "m", "e", "_", "t", "h", "r", "e", "s", "h", "o", "l", "d">>, v |-> JNum(<<"9">>)],
           [k |-> <<"c", "o", "d", "e", "_", "q", "u", "a", "l", "i", "t", "y", "_", "p", "a", "t", "t", "e", "r", "n", "s">>, v |-> JArr(<<JStr(<<"p">>)>>)],
           [k |-> <<"o", "p", "t", "i", "m", "i", "z", "a", "t", "i", "o", "n", "_", "a", "w", "a", "r", "e", "n", "e", "s", "s">>, v |-> JStr(<<"o">>)]>>)

TreesText == <<"T", "r", "e", "e", "s">>

\* the values of the fields enrichMetadata looks at
TagInputs == {JUndef, JArr(<<>>), JArr(<<JStr(<<"a">>)>>)}
MetadataTagInputs == {JUndef, JArr(<<>>), JArr(<<JStr(<<"b">>)>>)}
TopicInputs == {JUndef, JStr(GeneralText), JStr(TreesText)}
ComplexityInputs == {JUndef, JStr(OPlaceholder), JStr(<<"O", "(", "x", ")">>)}
SolveTimeInputs == {JUndef, JNum(<<"0">>), JNum(<<"2", "0">>)}
IndicatorInputs == {JUndef, JArr(<<>>), JArr(<<JStr(<<"m">>)>>), IndicatorObject}
DifficultyInputs == {JStr(EasyText), JStr(MediumText), JStr(HardText), JStr(<<"x">>)}

\* variants that differ in the fields of metadata, in tags and in difficulty
MetadataVariants ==
    {[BaseVariant EXCEPT
        !.tags = tg, !.difficulty = d,
        !.metadata = [BaseMetadata EXCEPT
            !.tags = f.tags, !.topic_category = f.topic, !.time_complexity = f.time,
            !.space_complexity = f.space, !.expected_solve_time_minutes = f.solve,
            !.mastery_indicators = f.indicators]] :
        tg \in TagInputs, d \in DifficultyInputs,
        f \in [tags : MetadataTagInputs, topic : TopicInputs, time : ComplexityInputs,
               space : {JUndef, JStr(OPlaceholder)}, solve : SolveTimeInputs,
               indicators : IndicatorInputs]}
    \cup {[BaseVariant EXCEPT !.metadata = [NoMetadata EXCEPT !.t = k.t, !.s = k.s]] :
            k \in NonObjectKinds}

\* the orders the random comparator may leave the pool in: its rotations and
\* its reverse
RotatedOrder(k) ==
    [j \in 1..Len(commonIndicators) |-> ((j + k - 1) % Len(commonIndicators)) + 1]
ReverseOrder == [j \in 1..Len(commonIndicators) |-> Len(commonIndicators) + 1 - j]
ShuffleOrders ==
    {RotatedOrder(k) : k \in 0..(Len(commonIndicators) - 1)} \cup {ReverseOrder}

\* the outcomes of the random source
EnrichRandoms == [n : RandomCounts, perm : ShuffleOrders]

InitEnrich ==
    /\ RaceIdle
    /\ ReadIdle
    /\ \/ ev \in TopicVariants /\ ernd = [n |-> MinIndicators, perm |-> RotatedOrder(0)]
       \/ ev \in MetadataVariants
          /\ ernd \in [n : {MinIndicators, MinIndicators + IndicatorSpread - 1},
                        perm : {RotatedOrder(3), ReverseOrder}]
       \/ ev = BaseVariant /\ ernd \in EnrichRandoms
    /\ enpc = "input"
    /\ eres = BaseVariant
    /\ ExtractIdle
    /\ NormIdle
    /\ GenIdle
    /\ WriteIdle
    /\ ResolveIdle

Enrich ==
    /\ enpc = "input"
    /\ \E r \in {enrichMetadata(ev, ernd)} :
        /\ enpc' = IF r.thrown THEN "thrown" ELSE "enriched"
        /\ eres' = r.v
    /\ UNCHANGED <<ev, ernd, extVars, normVars, genVars, wrVars, selVars, raceVars, readVars>>

NextEnrich == Enrich

SpecEnrich == InitEnrich /\ [][NextEnrich]_vars

\* ------------------------------------------------------------------------
\* Model resolution applied to one selection
\* ------------------------------------------------------------------------
\* what the selections are put together from
SelectionPieces ==
    {MistralWord, <<"M", "i", "s", "t", "r", "a", "l">>, <<"-", "s", "m", "a", "l", "l">>, <<"-", "m", "e", "d", "i", "u", "m">>, <<"-", "l", "a", "r", "g", "e">>,
     <<"-", "L", "A", "R", "G", "E">>, GeminiWord, <<"G", "o", "o", "g", "l", "e">>, <<"g", "p", "t">>, <<"-">>, <<"x">>}

SelectionTexts == PieceTexts(SelectionPieces, MaxPieces)

InitResolve ==
    /\ RaceIdle
    /\ ReadIdle
    /\ modelSelection \in SelectionTexts
    /\ selpc = "input"
    /\ selProvider = "none"
    /\ selModel = <<>>
    /\ ExtractIdle
    /\ NormIdle
    /\ GenIdle
    /\ EnrichIdle
    /\ WriteIdle

\* the two calls of oneTry, and getModelFromSelection on its own for a
\* selection without provider
Resolve ==
    /\ selpc = "input"
    /\ selpc' = "resolved"
    /\ selProvider' = getProviderFromModel(modelSelection)
    /\ selModel' = getModelFromSelection(modelSelection)
    /\ UNCHANGED <<modelSelection, extVars, normVars, genVars, enrVars, wrVars, raceVars, readVars>>

NextResolve == Resolve

SpecResolve == InitResolve /\ [][NextResolve]_vars

\* ------------------------------------------------------------------------
\* POST /api/questions
\* ------------------------------------------------------------------------
\* The repository holds the handler twice: over PostgreSQL ("rds") and over
\* the document store ("mongo").  Both make the same checks in the same
\* order; the document store also validates the document when it is saved.
QuestionIds == 1..MaxId

SecretText == <<"k">>

\* the body when it is not a JSON object with fields
NoBody == [id |-> 0, title |-> FALSE, difficulty |-> "absent", question |-> FALSE,
           metadata |-> FALSE]

\* the bodies that are objects: id 0 stands for a missing or falsy id, FALSE
\* for a missing or falsy field, "other" for a difficulty outside the schema
ObjectBodies ==
    [id : 0..MaxId, title : BOOLEAN, difficulty : {"absent", "Easy", "other"},
     question : BOOLEAN, metadata : BOOLEAN]

\* the requests: the header is absent (<<>>), right or wrong; the body is an
\* object, the JSON null, or not JSON
WriteRequests ==
    {[backend |-> b, header |-> h, kind |-> "object", body |-> o] :
        b \in {"rds", "mongo"}, h \in {<<>>, SecretText, <<"z">>}, o \in ObjectBodies}
    \cup {[backend |-> b, header |-> h, kind |-> k, body |-> NoBody] :
        b \in {"rds", "mongo"}, h \in {<<>>, SecretText, <<"z">>},
        k \in {"null", "unreadable"}}

InitWrite ==
    /\ RaceIdle
    /\ ReadIdle
    /\ API_KEY \in {<<>>, SecretText}
    /\ wreq \in WriteRequests
    /\ wpc = "start"
    /\ wrows \in {{}, {1}}
    /\ wcontent = [id \in QuestionIds |-> IF id \in wrows THEN "stored" ELSE "none"]
    /\ wresponse = [status |-> 0, message |-> "none", data |-> 0]
    /\ ExtractIdle
    /\ NormIdle
    /\ GenIdle
    /\ EnrichIdle
    /\ ResolveIdle

WriteRespond(status, message, data) ==
    /\ wresponse' = [status |-> status, message |-> message, data |-> data]
    /\ wpc' = "done"

\* !body.id || !body.title || !body.difficulty || !body.question || !body.metadata
MissingFields(body) ==
    \/ body.id = 0
    \/ ~body.title
    \/ body.difficulty = "absent"
    \/ ~body.question
    \/ ~body.metadata

\* an authentication that looks at the header before the configuration
AuthenticateHeaderFirst ==
    /\ wpc = "start"
    /\ IF wreq.header = <<>> \/ wreq.header # API_KEY
       THEN WriteRespond(401, "unauthorized", 0)
       ELSE IF API_KEY = <<>> THEN WriteRespond(500, "configuration", 0)
       ELSE wpc' = "body" /\ wresponse' = wresponse
    /\ UNCHANGED <<API_KEY, wreq, wrows, wcontent, extVars, normVars, genVars, enrVars, selVars,
                   raceVars, readVars>>

\* the checks of API_KEY and of the x-api-key header
Authenticate ==
    /\ wpc = "start"
    /\ IF API_KEY = <<>> THEN WriteRespond(500, "configuration", 0)
       ELSE IF wreq.header = <<>> \/ wreq.header # API_KEY
       THEN WriteRespond(401, "unauthorized", 0)
       ELSE wpc' = "body" /\ wresponse' = wresponse
    /\ UNCHANGED <<API_KEY, wreq, wrows, wcontent, extVars, normVars, genVars, enrVars, selVars,
                   raceVars, readVars>>

\* connectDB (document store only), request.json() and the basic validation;
\* reading a field of null throws, like a body that is not JSON
ReadBody ==
    /\ wpc = "body"
    /\ \E connected \in (IF wreq.backend = "mongo" THEN BOOLEAN ELSE {TRUE}) :
        IF ~connected \/ wreq.kind # "object" THEN WriteRespond(500, "internal", 0)
        ELSE IF MissingFields(wreq.body) THEN WriteRespond(400, "missing", 0)
        ELSE wpc' = "find" /\ wresponse' = wresponse
    /\ UNCHANGED <<API_KEY, wreq, wrows, wcontent, extVars, normVars, genVars, enrVars, selVars,
                   raceVars, readVars>>

\* the lookup of the id
FindExisting ==
    /\ wpc = "find"
    /\ \E dbOk \in BOOLEAN :
        IF ~dbOk THEN WriteRespond(500, "internal", 0)
        ELSE IF wreq.body.id \in wrows THEN WriteRespond(409, "exists", 0)
        ELSE wpc' = "insert" /\ wresponse' = wresponse
    /\ UNCHANGED <<API_KEY, wreq, wrows, wcontent, extVars, normVars, genVars, enrVars, selVars,
                   raceVars, readVars>>

\* an insert that writes over the row of an id that is taken
InsertRowUpsert ==
    /\ wpc = "insert"
    /\ IF wreq.backend = "mongo" /\ wreq.body.difficulty = "other"
       THEN WriteRespond(400, "validation", 0) /\ UNCHANGED <<wrows, wcontent>>
       ELSE \E dbOk \in BOOLEAN :
            IF dbOk
            THEN /\ wrows' = wrows \cup {wreq.body.id}
                 /\ wcontent' = [wcontent EXCEPT ![wreq.body.id] = "request"]
                 /\ WriteRespond(201, "added", wreq.body.id)
            ELSE WriteRespond(500, "internal", 0) /\ UNCHANGED <<wrows, wcontent>>
    /\ UNCHANGED <<API_KEY, wreq, extVars, normVars, genVars, enrVars, selVars, raceVars, readVars>>

\* the insert: the document store validates first; an id that is taken by
\* now is a duplicate key error; any other failure is an internal error
InsertRow ==
    /\ wpc = "insert"
    /\ IF wreq.backend = "mongo" /\ wreq.body.difficulty = "other"
       THEN WriteRespond(400, "validation", 0) /\ UNCHANGED <<wrows, wcontent>>
       ELSE IF wreq.body.id \in wrows
       THEN WriteRespond(409, "duplicate", 0) /\ UNCHANGED <<wrows, wcontent>>
       ELSE \E dbOk \in BOOLEAN :
            IF dbOk
            THEN /\ wrows' = wrows \cup {wreq.body.id}
                 /\ wcontent' = [wcontent EXCEPT ![wreq.body.id] = "request"]
                 /\ WriteRespond(201, "added", wreq.body.id)
            ELSE WriteRespond(500, "internal", 0) /\ UNCHANGED <<wrows, wcontent>>
    /\ UNCHANGED <<API_KEY, wreq, extVars, normVars, genVars, enrVars, selVars, raceVars, readVars>>

\* another request inserts a row while this one is between its awaits
ConcurrentInsert ==
    /\ wpc \in {"body", "find", "insert"}
    /\ \E id \in QuestionIds \ wrows :
        /\ wrows' = wrows \cup {id}
        /\ wcontent' = [wcontent EXCEPT ![id] = "other"]
    /\ UNCHANGED <<API_KEY, wreq, wpc, wresponse, extVars, normVars, genVars, enrVars,
                   selVars, raceVars, readVars>>

NextWrite == Authenticate \/ ReadBody \/ FindExisting \/ InsertRow \/ ConcurrentInsert

SpecWrite == InitWrite /\ [][NextWrite]_vars

\* ------------------------------------------------------------------------
\* Two POST /api/questions requests at once
\* ------------------------------------------------------------------------
\* Both requests carry the right header and a complete body, so each of them
\* is at its lookup, at its insert, or done.  The id of public.problems and the
\* id of the document schema are unique: an insert of an id that is taken
\* fails with the duplicate key error the handlers catch.
Requesters == {1, 2}

RaceBodies == [id : QuestionIds, difficulty : {"Easy", "other"}]

RaceNoResponse == [status |-> 0, message |-> "none", at |-> "none"]

InitRace ==
    /\ rreq \in [backend : {"rds", "mongo"}, bodies : [Requesters -> RaceBodies]]
    /\ rpc = [p \in Requesters |-> "find"]
    /\ rrows \in {{}, {[id |-> 1, by |-> 0]}}
    /\ rresp = [p \in Requesters |-> RaceNoResponse]
    /\ ExtractIdle
    /\ NormIdle
    /\ GenIdle
    /\ EnrichIdle
    /\ WriteIdle
    /\ ResolveIdle
    /\ ReadIdle

\* request p answers from where it is
RaceRespond(p, status, message) ==
    /\ rresp' = [rresp EXCEPT ![p] = [status |-> status, message |-> message, at |-> rpc[p]]]
    /\ rpc' = [rpc EXCEPT ![p] = "done"]

IdTaken(id) == \E r \in rrows : r.id = id

\* the lookup of request p
RaceFind(p) ==
    /\ rpc[p] = "find"
    /\ \E dbOk \in BOOLEAN :
        IF ~dbOk THEN RaceRespond(p, 500, "internal")
        ELSE IF IdTaken(rreq.bodies[p].id) THEN RaceRespond(p, 409, "exists")
        ELSE rpc' = [rpc EXCEPT ![p] = "insert"] /\ rresp' = rresp
    /\ UNCHANGED <<rreq, rrows, extVars, normVars, genVars, enrVars, wrVars, selVars, readVars>>

\* an insert into a table whose id is not unique
RaceInsertNotUnique(p) ==
    /\ rpc[p] = "insert"
    /\ IF rreq.backend = "mongo" /\ rreq.bodies[p].difficulty = "other"
       THEN RaceRespond(p, 400, "validation") /\ rrows' = rrows
       ELSE \E dbOk \in BOOLEAN :
            IF dbOk
            THEN /\ rrows' = rrows \cup {[id |-> rreq.bodies[p].id, by |-> p]}
                 /\ RaceRespond(p, 201, "added")
            ELSE RaceRespond(p, 500, "internal") /\ rrows' = rrows
    /\ UNCHANGED <<rreq, extVars, normVars, genVars, enrVars, wrVars, selVars, readVars>>

\* the insert of request p
RaceInsert(p) ==
    /\ rpc[p] = "insert"
    /\ IF rreq.backend = "mongo" /\ rreq.bodies[p].difficulty = "other"
       THEN RaceRespond(p, 400, "validation") /\ rrows' = rrows
       ELSE IF IdTaken(rreq.bodies[p].id)
       THEN RaceRespond(p, 409, "duplicate") /\ rrows' = rrows
       ELSE \E dbOk \in BOOLEAN :
            IF dbOk
            THEN /\ rrows' = rrows \cup {[id |-> rreq.bodies[p].id, by |-> p]}
                 /\ RaceRespond(p, 201, "added")
            ELSE RaceRespond(p, 500, "internal") /\ rrows' = rrows
    /\ UNCHANGED <<rreq, extVars, normVars, genVars, enrVars, wrVars, selVars, readVars>>

NextRace == \E p \in Requesters : RaceFind(p) \/ RaceInsert(p)

SpecRace == InitRace /\ [][NextRace]_vars

\* ------------------------------------------------------------------------
\* GET /api/questions
\* ------------------------------------------------------------------------
\* The repository holds the handler twice, like POST: over PostgreSQL ("rds")
\* and over the document store ("mongo").
ArrayWord == <<"A", "r", "r", "a", "y">>
GraphWord == <<"G", "r", "a", "p", "h">>
EasyWord == <<"E", "a", "s", "y">>
MediumWord == <<"M", "e", "d", "i", "u", "m">>
HardWord == <<"H", "a", "r", "d">>

\* the rows of the table
ReadRows ==
    {[id |-> 1, tags |-> {ArrayWord}, difficulty |-> EasyWord],
     [id |-> 2, tags |-> {GraphWord}, difficulty |-> MediumWord],
     [id |-> 3, tags |-> {ArrayWord, GraphWord}, difficulty |-> HardWord]}

\* searchParams.get(name): null for a parameter that is not in the URL
NoParam == [given |-> FALSE, text |-> <<>>]
Param(t) == [given |-> TRUE, text |-> t]

IdParams == {NoParam, Param(<<>>), Param(<<"1">>), Param(<<"7">>), Param(<<"x">>)}
TagParams ==
    {NoParam, Param(ArrayWord), Param(LowerText(ArrayWord)), Param(<<"A", "r", "r">>),
     Param(<<"T", "r", "e", "e">> \o <<",", SP>> \o GraphWord),
     Param(<<"T", "r", "e", "e">>)}
DifficultyParams ==
    {NoParam, Param(EasyWord), Param(LowerText(EasyWord)), Param(<<"e">>),
     Param(<<SP>> \o HardWord \o <<SP>>)}

ReadRequests ==
    [backend : {"rds", "mongo"}, header : {<<>>, SecretText, <<"z">>}, id : IdParams,
     tags : TagParams, difficulty : DifficultyParams]

NoReadResponse == [status |-> 0, rows |-> {}]

InitRead ==
    /\ API_KEY \in {<<>>, SecretText}
    /\ greq \in ReadRequests
    /\ gpc = "start"
    /\ gtable \in {ReadRows, {r \in ReadRows : r.id = 2}}
    /\ gresp = NoReadResponse
    /\ ExtractIdle
    /\ NormIdle
    /\ GenIdle
    /\ EnrichIdle
    /\ WriteHandlerIdle
    /\ ResolveIdle
    /\ RaceIdle

ReadRespond(status, rows) ==
    /\ gresp' = [status |-> status, rows |-> rows]
    /\ gpc' = "done"

\* if (id), if (tags), if (difficulty): null and '' are falsy
ParamTruthy(param) == param.given /\ param.text # <<>>

DigitChars == <<"0", "1", "2", "3", "4", "5", "6", "7", "8", "9">>
IsDigitChar(c) == \E k \in 1..Len(DigitChars) : DigitChars[k] = c
DigitValue(c) == (CHOOSE k \in 1..Len(DigitChars) : DigitChars[k] = c) - 1

\* parseInt(t) for a text without a sign and leading blanks: the number its
\* leading digits spell, -1 standing for NaN
RECURSIVE LeadingNumber(_, _)
LeadingNumber(t, acc) ==
    IF t = <<>> \/ ~IsDigitChar(Head(t)) THEN acc
    ELSE LeadingNumber(Tail(t), acc * Len(DigitChars) + DigitValue(Head(t)))

ParseInt(t) == IF t = <<>> \/ ~IsDigitChar(Head(t)) THEN -1 ELSE LeadingNumber(t, 0)

\* t.split(","): the pieces of t between its commas
RECURSIVE SplitComma(_, _)
SplitComma(t, piece) ==
    IF t = <<>> THEN <<piece>>
    ELSE IF Head(t) = "," THEN <<piece>> \o SplitComma(Tail(t), <<>>)
    ELSE SplitComma(Tail(t), Append(piece, Head(t)))

\* tags.split(",").map(tag => tag.trim())
TagList(t) == Bind(SplitComma(t, <<>>), LAMBDA ps : {Trim(ps[k]) : k \in 1..Len(ps)})

\* new RegExp(w, "i") tested on t, for a w of letters: t holds w, whatever
\* the case of the letters
MatchesRegExp(t, w) == Includes(LowerText(t), LowerText(w))

\* the WHERE clause and the filter: does the query q select row r
RowSelected(backend, q, r) ==
    /\ ParamTruthy(q.id) => r.id = ParseInt(q.id.text)
    /\ ParamTruthy(q.difficulty) =>
        IF backend = "rds"
        THEN LowerText(r.difficulty) = LowerText(Trim(q.difficulty.text))
        ELSE MatchesRegExp(r.difficulty, Trim(q.difficulty.text))
    /\ ParamTruthy(q.tags) =>
        IF backend = "rds"
        THEN TagList(q.tags.text) \cap r.tags # {}
        ELSE \E w \in TagList(q.tags.text), t \in r.tags : MatchesRegExp(t, w)

\* the checks of API_KEY and of the x-api-key header
ReadAuthenticate ==
    /\ gpc = "start"
    /\ IF API_KEY = <<>> THEN ReadRespond(500, {})
       ELSE IF greq.header = <<>> \/ greq.header # API_KEY THEN ReadRespond(401, {})
       ELSE gpc' = "query" /\ gresp' = gresp
    /\ UNCHANGED <<API_KEY, wreq, wpc, wrows, wcontent, wresponse, greq, gtable, extVars,
                   normVars, genVars, enrVars, selVars, raceVars>>

\* the query and the answer; a query with NaN for the id, and a database that
\* does not answer, throw
ReadQuery ==
    /\ gpc = "query"
    /\ \E dbOk \in BOOLEAN :
        IF ~dbOk \/ (ParamTruthy(greq.id) /\ ParseInt(greq.id.text) = -1)
        THEN ReadRespond(500, {})
        ELSE \E rows \in {{r \in gtable : RowSelected(greq.backend, greq, r)}} :
                IF ParamTruthy(greq.id) /\ rows = {}
                THEN ReadRespond(404, {})
                ELSE ReadRespond(200, rows)
    /\ UNCHANGED <<API_KEY, wreq, wpc, wrows, wcontent, wresponse, greq, gtable, extVars,
                   normVars, genVars, enrVars, selVars, raceVars>>

NextRead == ReadAuthenticate \/ ReadQuery

SpecRead == InitRead /\ [][NextRead]_vars

\* ------------------------------------------------------------------------
\* Inputs of the extractor
\* ------------------------------------------------------------------------
\* characters of arbitrary raw texts
RawChars == {"{", "}", "[", "]", QT, BS, ",", ":", "1", "a", SP}
\* characters of string values inside generated objects
StrChars == {"{", "}", QT, BS}
\* characters of the prose around an embedded object (no braces)
ProseChars == {"a", SP, QT, BS}

StrValues == {JStr(t) : t \in TextsUpTo(StrChars, MaxStrLen)}
LeafValues == StrValues \cup {JNum(<<"1">>)}
InnerValues == {JStr(t) : t \in TextsUpTo(StrChars, 1)} \cup {JNum(<<"1">>)}
NestedValues ==
    {JObj(<<[k |-> <<"a">>, v |-> v]>>) : v \in InnerValues}
    \cup {JArr(<<v>>) : v \in InnerValues} \cup {JObj(<<>>), JArr(<<>>)}

\* the JSON objects O of the model: no key, one key, or two keys
JsonObjects ==
    {JObj(<<>>)}
    \cup {JObj(<<[k |-> <<"a">>, v |-> v]>>) : v \in LeafValues \cup NestedValues}
    \cup {JObj(<<[k |-> <<"a">>, v |-> v], [k |-> <<"b">>, v |-> w]>>) :
            v \in InnerValues, w \in InnerValues}

ProseTexts == TextsUpTo(ProseChars, MaxProse)
ShortProse == TextsUpTo(ProseChars, 1)

\* the text of O with a comma put before its closing brace
WithTrailingComma(o) ==
    LET t == Stringify(o) IN SubSeq(t, 1, Len(t) - 1) \o <<",", "}">>

\* texts with a closing brace before the first opening brace
StrayCloserTexts ==
    {<<"}", "{", "{", "}">>,
     <<"}", "{", "}", "{", "}">>,
     <<"}", "{", "\"", "a", "\"", ":", "1", "}">>}

\* [raw, origin] pairs the extractor is run on
ExtractInputs ==
    {[raw |-> t, origin |-> NoOrigin] : t \in TextsUpTo(RawChars, MaxRawLen) \cup StrayCloserTexts}
    \cup {[raw |-> Stringify(o),
           origin |-> [kind |-> "stringified", obj |-> o, prefix |-> <<>>, suffix |-> <<>>]] :
            o \in JsonObjects}
    \cup {[raw |-> p \o Stringify(o) \o q,
           origin |-> [kind |-> "embedded", obj |-> o, prefix |-> p, suffix |-> q]] :
            o \in JsonObjects, p \in ProseTexts, q \in ShortProse}
    \cup {[raw |-> p \o WithTrailingComma(o) \o q,
           origin |-> [kind |-> "comma", obj |-> o, prefix |-> p, suffix |-> q]] :
            o \in JsonObjects \ {JObj(<<>>)}, p \in ShortProse, q \in ShortProse}

\* ------------------------------------------------------------------------
\* extractJSONObject, step by step
\* ------------------------------------------------------------------------
InitExtract ==
    /\ RaceIdle
    /\ ReadIdle
    /\ \E in \in ExtractInputs : raw = in.raw /\ origin = in.origin
    /\ epc = "entry"
    /\ s = <<>>
    /\ i = 0
    /\ braceCount = 0
    /\ inString = FALSE
    /\ escapeNext = FALSE
    /\ startIdx = -1
    /\ endIdx = -1
    /\ result = <<>>
    /\ NormIdle
    /\ GenIdle
    /\ EnrichIdle
    /\ WriteIdle
    /\ ResolveIdle

\* ExtractEntry without the direct parse: every text goes to the scan
ExtractEntryNoFastPath ==
    /\ epc = "entry"
    /\ s' = Trim(raw)
    /\ epc' = "scan"
    /\ UNCHANGED <<raw, origin, i, braceCount, inString, escapeNext, startIdx, endIdx,
                   result, normVars, genVars, enrVars, wrVars, selVars,
                   raceVars, readVars>>

\* raw.trim() and the direct JSON.parse
ExtractEntry ==
    /\ epc = "entry"
    /\ s' = Trim(raw)
    /\ IF JsonParse(Trim(raw)).ok
       THEN /\ epc' = "returned"
            /\ result' = Trim(raw)
       ELSE /\ epc' = "scan"
            /\ result' = result
    /\ UNCHANGED <<raw, origin, i, braceCount, inString, escapeNext, startIdx, endIdx,
                   normVars, genVars, enrVars, wrVars, selVars, raceVars, readVars>>

ScanLocals == [i |-> i, braceCount |-> braceCount, inString |-> inString,
               escapeNext |-> escapeNext, startIdx |-> startIdx, endIdx |-> endIdx,
               done |-> FALSE]

\* one iteration of the scan loop
ScanStep ==
    /\ epc = "scan"
    /\ i < Len(s)
    /\ LET n == ScanIter(s, ScanLocals) IN
        /\ i' = n.i
        /\ braceCount' = n.braceCount
        /\ inString' = n.inString
        /\ escapeNext' = n.escapeNext
        /\ startIdx' = n.startIdx
        /\ endIdx' = n.endIdx
        /\ epc' = IF n.done THEN "after" ELSE "scan"
    /\ UNCHANGED <<raw, origin, s, result, normVars, genVars, enrVars, wrVars, selVars,
                   raceVars, readVars>>

\* the loop runs off the end of the text
ScanEnd ==
    /\ epc = "scan"
    /\ i >= Len(s)
    /\ epc' = "after"
    /\ UNCHANGED <<raw, origin, s, i, braceCount, inString, escapeNext, startIdx,
                   endIdx, result, normVars, genVars, enrVars, wrVars, selVars,
                   raceVars, readVars>>

\* the fallback, the throw or the return of the span
ExtractFinish ==
    /\ epc = "after"
    /\ LET r == AfterScan(s, ScanLocals) IN
        /\ epc' = IF r.thrown THEN "thrown" ELSE "returned"
        /\ result' = r.text
    /\ UNCHANGED <<raw, origin, s, i, braceCount, inString, escapeNext, startIdx, endIdx,
                   normVars, genVars, enrVars, wrVars, selVars, raceVars, readVars>>

NextExtract == ExtractEntry \/ ScanStep \/ ScanEnd \/ ExtractFinish

SpecExtract == InitExtract /\ [][NextExtract]_vars

\* ------------------------------------------------------------------------
\* Claims about the extractor
\* ------------------------------------------------------------------------
ExtractDone == epc \in {"returned", "thrown"}

\* C1: whenever extractJSONObject returns, the returned text parses, and it
\* parses to a JSON object.
C1_ReturnsParsableObject ==
    epc = "returned" => JsonParse(result).ok /\ JsonParse(result).val.t = "obj"

\* C2: for every JSON object O, extractJSONObject(JSON.stringify(O)) returns
\* at the direct parse, without scanning, the text unchanged, and that text
\* parses to a structure equal to O.
C2_RoundTrip ==
    ExtractDone /\ origin.kind = "stringified" =>
        /\ epc = "returned"
        /\ result = raw
        /\ startIdx = -1 /\ i = 0
        /\ JsonParse(result).ok
        /\ JsonParse(result).val = origin.obj

\* some character of the text is c
Has(t, c) == \E j \in 1..Len(t) : t[j] = c

C2_Witness ==
    /\ epc = "returned"
    /\ origin.kind = "stringified"
    /\ Len(origin.obj.kids) = 1
    /\ origin.obj.kids[1].v.t = "str"
    /\ Has(origin.obj.kids[1].v.s, "}")
    /\ Has(origin.obj.kids[1].v.s, QT)
    /\ JsonParse(result).val = origin.obj

\* some string value of object o contains a brace or a quote
HasTrickyString(o) ==
    \E j \in 1..Len(o.kids) :
        /\ o.kids[j].v.t = "str"
        /\ \E c \in {"{", "}", QT} : Has(o.kids[j].v.s, c)

\* C3: for a text that embeds, between brace-free prose, one JSON object whose
\* string values contain braces or quotes (and that is not itself JSON),
\* extractJSONObject returns exactly the text of that object, never a shorter
\* span.
C3_WholeObjectReturned ==
    /\ ExtractDone
    /\ origin.kind = "embedded"
    /\ HasTrickyString(origin.obj)
    /\ ~JsonParse(Trim(raw)).ok
    => epc = "returned" /\ result = Stringify(origin.obj)

\* C4: for an object text with a comma before its closing brace,
\* extractJSONObject returns text that parses to the object without the comma.
C4_TrailingCommaRepaired ==
    ExtractDone /\ origin.kind = "comma" =>
        /\ epc = "returned"
        /\ JsonParse(result).ok
        /\ JsonParse(result).val = origin.obj

InitNorm ==
    /\ RaceIdle
    /\ ReadIdle
    /\ nv \in NormInputs
    /\ npc = "input"
    /\ nres1 = BaseVariant
    /\ nres2 = BaseVariant
    /\ ExtractIdle
    /\ GenIdle
    /\ EnrichIdle
    /\ WriteIdle
    /\ ResolveIdle

NextNorm == Normalize \/ NormalizeAgain

SpecNorm == InitNorm /\ [][NextNorm]_vars

\* ------------------------------------------------------------------------
\* Claims about the normalizer
\* ------------------------------------------------------------------------
\* C9: validateAndFixVariant never fails: no call of it throws.
C9_NormalizeTotal == npc # "thrown"

\* C10: validateAndFixVariant is idempotent: applied to its own result it
\* returns that result unchanged.
C10_Idempotent == npc = "twice" => nres2 = nres1

\* ------------------------------------------------------------------------
\* Properties of POST /api/generate-question
\* ------------------------------------------------------------------------
GenDone == pc = "done"

\* the request names a topic, a model and an API key
AllPresent == req.readable /\ req.topic /\ req.model # <<>> /\ req.apiKey # "absent"

\* resetProblemsSequence threw: the fatal answer of a request that never tried
ResetFailed == AllPresent /\ response.shape = "fatal" /\ tries = <<>>

\* the retry of the request failed
RetryFailed == Len(tries) = 2 /\ ~tries[2].ok

ErrorVariants == [j \in 1..Len(errors) |-> errors[j].variant]

Validated == AllPresent /\ ~CountRejected(CountOf(req))

C8_BadRequestExactly ==
    LET c == CountOf(req)
        outside == ~c.number \/ c.n < 1 \/ c.n > 10
    IN
    GenDone /\ req.readable /\ ~ResetFailed =>
        /\ response.status = 400 <=> (~AllPresent \/ outside)
        /\ AllPresent /\ ~outside => tries # <<>>

\* ------------------------------------------------------------------------
\* The shape of a normalized variant
\* ------------------------------------------------------------------------
\* a string field as the data model wants it: absent, or a trimmed non-empty
\* string that holds no fenced block
CleanStringField(v) ==
    \/ v = JUndef
    \/ /\ v.t = "str"
       /\ v.s # <<>>
       /\ Trim(v.s) = v.s
       /\ RemoveFences(v.s) = v.s

\* an array field as the data model wants it: an array whose elements are
\* all strings
StringSequence(v) ==
    v.t = "arr" /\ \A j \in 1..Len(v.kids) : v.kids[j].v.t = "str"

\* the string fields validateAndFixVariant rewrites
NormalizedStrings == CleanedFields \cup {"constraints"}

\* C11: after validateAndFixVariant every string field is absent or a
\* trimmed non-empty string without a fenced block, and tags, hidden_inputs,
\* hidden_outputs and the array fields of metadata are arrays of strings
\* (tags and the fields of metadata may also be absent).
C11_NormalizedShape ==
    npc = "once" =>
        /\ \A f \in NormalizedStrings : CleanStringField(nres1[f])
        /\ CleanStringField(nres1.test_cases.sample_input)
        /\ StringSequence(nres1.test_cases.hidden_inputs)
        /\ StringSequence(nres1.test_cases.hidden_outputs)
        /\ nres1.tags = JUndef \/ StringSequence(nres1.tags)
        /\ IsObjectLike(nres1.metadata.t) =>
                \A f \in MetadataArrays :
                    nres1.metadata[f] = JUndef \/ StringSequence(nres1.metadata[f])

\* ------------------------------------------------------------------------
\* The rows handed to insertQuestion
\* ------------------------------------------------------------------------
\* The schema of public.problems is not part of the source: the database of
\* the model accepts or refuses any row, so every row handed to
\* insertQuestion is a row of store in some behaviour.
DifficultyTexts == {EasyText, MediumText, HardText}

\* the required fields of a persisted question
RequiredFieldsHeld(q) ==
    /\ q.title.t = "str" /\ q.title.s # <<>>
    /\ q.difficulty.t = "str" /\ q.difficulty.s \in DifficultyTexts
    /\ q.question.t = "str" /\ q.question.s # <<>>
    /\ q.metadata.t = "obj"

\* C12: every row handed to insertQuestion has a non-empty title, a
\* difficulty that is Easy, Medium or Hard, a non-empty question text and a
\* metadata object.
C12_RequiredFieldsHeld == \A j \in 1..Len(store) : RequiredFieldsHeld(store[j].row)

\* ------------------------------------------------------------------------
\* Re-validation before persisting
\* ------------------------------------------------------------------------
\* what the re-validation is to guarantee of a row
StructurallySound(q) ==
    /\ q.sample_input.t = "str"
    /\ ~HasEscapedNewline2(q.sample_input.s)
    /\ StringSequence(q.hidden_inputs)
    /\ StringSequence(q.hidden_outputs)

\* the variant v passes the basic validation, is normalized and enriched
\* without an exception, and then fails the re-validation
FailsAfterFix(v) ==
    /\ ~MissingRequired(v)
    /\ \E fixed \in {validateAndFixVariant(v)} :
        /\ ~fixed.thrown
        /\ \E rnd \in GenRandoms :
           \E enriched \in {enrichMetadata(fixed.v, rnd)} :
                ~enriched.thrown /\ ~StructurallySound(QuestionRow(enriched.v))

\* C13: every persisted row has a string sample_input without a doubly
\* escaped newline and hidden arrays that are sequences of strings; a variant
\* that fails this re-validation is not inserted and is recorded in errors.
C13_RevalidatedBeforeInsert ==
    /\ Len(store) = Len(inserted)
    /\ Len(inserted) + Len(errors) = idx
    /\ \A j \in 1..Len(store) : StructurallySound(store[j].row)
    /\ \A j \in 1..idx :
        FailsAfterFix(variants[j]) =>
            \E k \in 1..Len(errors) :
                errors[k] = [variant |-> j, error |-> "revalidation"]

\* two variants were processed: the first was inserted, the second failed
\* the re-validation and was recorded
C13_Witness ==
    /\ GenDone
    /\ Len(variants) = 2
    /\ FailsAfterFix(variants[2])
    /\ Len(store) = 1
    /\ errors = <<[variant |-> 2, error |-> "revalidation"]>>

\* ------------------------------------------------------------------------
\* Properties of enrichMetadata
\* ------------------------------------------------------------------------
\* the categories in the order the rules are to be tried in
CategoryOrder == <<
    <<"A", "r", "r", "a", "y", "s">>,
    <<"S", "t", "r", "i", "n", "g", "s">>,
    <<"T", "r", "e", "e", "s">>,
    <<"G", "r", "a", "p", "h", "s">>,
    <<"D", "y", "n", "a", "m", "i", "c", " ", "P", "r", "o", "g", "r", "a", "m", "m", "i", "n", "g">>,
    <<"S", "e", "a", "r", "c", "h", "i", "n", "g">>,
    <<"T", "w", "o", " ", "P", "o", "i", "n", "t", "e", "r", "s">>,
    <<"L", "i", "n", "k", "e", "d", " ", "L", "i", "s", "t", "s">>,
    <<"S", "t", "a", "c", "k", "s", " ", "&", " ", "Q", "u", "e", "u", "e", "s">>,
    <<"H", "a", "s", "h", " ", "T", "a", "b", "l", "e", "s">>,
    <<"H", "e", "a", "p", "s">>,
    <<"M", "a", "t", "r", "i", "x">>,
    <<"B", "i", "t", " ", "M", "a", "n", "i", "p", "u", "l", "a", "t", "i", "o", "n">> >>

\* the lowercase blob of title + description + tags of the variant v
TextOrEmpty(v) == IF v.t = "str" THEN LowerText(v.s) ELSE <<>>
Blob(v) ==
    TextOrEmpty(v.title) \o <<SP>> \o TextOrEmpty(v.description) \o <<SP>>
    \o (IF v.tags.t = "arr" THEN JoinLowerTags(v.tags.kids, 1) ELSE <<>>)

\* the keywords of rule k, the Arrays rule having the keywords arrays
RuleKeywords(k, arrays) == IF k = 1 THEN arrays ELSE TopicRules[k].keywords

\* the category of the first rule with a keyword in the blob, General if
\* there is none
FirstMatch(blob, arrays) ==
    LET hits == {k \in 1..Len(CategoryOrder) :
                    \E w \in RuleKeywords(k, arrays) : Includes(blob, w)}
    IN  IF hits = {} THEN GeneralText
        ELSE CategoryOrder[CHOOSE k \in hits : \A m \in hits : k <= m]

\* the topic was inferred: the variant came without a category and the
\* call returned
TopicInferred ==
    /\ enpc = "enriched"
    /\ ev.metadata.t = "obj"
    /\ ev.metadata.topic_category \in {JUndef, JStr(GeneralText)}

ArraysKeywordsStated ==
    {<<"a", "r", "r", "a", "y">>, <<"s", "u", "b", "a", "r", "r", "a", "y">>, SortWord, <<"r", "o", "t", "a", "t", "e">>}

ArraysKeywordsOfCode ==
    {<<"a", "r", "r", "a", "y">>, <<"s", "u", "b", "a", "r", "r", "a", "y">>, <<"s", "o", "r", "t", "i", "n", "g">>, <<"r", "o", "t", "a", "t", "e">>}

\* C14 as stated: the inferred category is that of the first rule, in the
\* order Arrays ... Bit Manipulation, with a keyword in the blob, the Arrays
\* keywords being array, subarray, sort, rotate.
C14_FirstRuleWinsSort ==
    TopicInferred =>
        eres.metadata.topic_category = JStr(FirstMatch(Blob(ev), ArraysKeywordsStated))

\* C14, amended: the same with the Arrays keywords array, subarray, sorting,
\* rotate; a blob with array and graph is classified as Arrays.
C14_FirstRuleWins ==
    TopicInferred =>
        /\ eres.metadata.topic_category = JStr(FirstMatch(Blob(ev), ArraysKeywordsOfCode))
        /\ Includes(Blob(ev), <<"a", "r", "r", "a", "y">>) /\ Includes(Blob(ev), <<"g", "r", "a", "p", "h">>)
            => eres.metadata.topic_category = JStr(CategoryOrder[1])

\* the title says graph, a tag says array, and the category is Arrays
C14_Witness ==
    /\ TopicInferred
    /\ ev.title = JStr(<<"g", "r", "a", "p", "h">>)
    /\ Includes(Blob(ev), <<"a", "r", "r", "a", "y">>)
    /\ eres.metadata.topic_category = JStr(CategoryOrder[1])

\* enrichMetadata returned for a variant whose metadata is an object
Enriched == enpc = "enriched" /\ ev.metadata.t = "obj"

NonEmptyArray(v) == v.t = "arr" /\ Len(v.kids) > 0

\* C15 as stated: the top-level tags are copied into metadata.tags only if
\* metadata.tags is empty; a non-empty metadata.tags is left unchanged.
C15_TagsCopiedOnlyIfEmpty ==
    Enriched =>
        IF NonEmptyArray(ev.metadata.tags)
        THEN eres.metadata.tags = ev.metadata.tags
        ELSE NonEmptyArray(ev.tags) => eres.metadata.tags = ev.tags

\* C15, amended: a non-empty top-level tags array replaces metadata.tags
\* whatever it held; without one, an absent metadata.tags becomes the empty
\* array and a present one is left unchanged.
C15_TagsCopied ==
    Enriched =>
        IF NonEmptyArray(ev.tags) THEN eres.metadata.tags = ev.tags
        ELSE IF ev.metadata.tags = JUndef THEN eres.metadata.tags = JArr(<<>>)
        ELSE eres.metadata.tags = ev.metadata.tags

\* both tags and metadata.tags were non-empty, and metadata.tags now holds
\* the top-level tags
C15_Witness ==
    /\ Enriched
    /\ NonEmptyArray(ev.tags)
    /\ NonEmptyArray(ev.metadata.tags)
    /\ ev.metadata.tags # ev.tags
    /\ eres.metadata.tags = ev.tags

\* C16: enrichMetadata leaves unchanged a topic_category other than General,
\* a time_complexity or space_complexity other than O(...), an existing
\* expected_solve_time_minutes, and a mastery_indicators that is a non-empty
\* array or the object form of the data model.
C16_PresentFieldsKept ==
    Enriched =>
        /\ ev.metadata.topic_category \notin {JUndef, JStr(GeneralText)}
            => eres.metadata.topic_category = ev.metadata.topic_category
        /\ ev.metadata.time_complexity \notin {JUndef, JStr(OPlaceholder)}
            => eres.metadata.time_complexity = ev.metadata.time_complexity
        /\ ev.metadata.space_complexity \notin {JUndef, JStr(OPlaceholder)}
            => eres.metadata.space_complexity = ev.metadata.space_complexity
        /\ ev.metadata.expected_solve_time_minutes # JUndef
            => eres.metadata.expected_solve_time_minutes
                    = ev.metadata.expected_solve_time_minutes
        /\ NonEmptyArray(ev.metadata.mastery_indicators)
           \/ ev.metadata.mastery_indicators.t = "obj"
            => eres.metadata.mastery_indicators = ev.metadata.mastery_indicators

\* C17: an absent expected_solve_time_minutes becomes 7 for Easy, 15 for
\* Medium, 30 for Hard and 15 for any other difficulty.
C17_SolveTimeByDifficulty ==
    enpc = "enriched" /\ (ev.metadata.t = "obj" =>
                            ev.metadata.expected_solve_time_minutes = JUndef) =>
        eres.metadata.expected_solve_time_minutes =
            CASE ev.difficulty = JStr(EasyText) -> JNum(<<"7">>)
              [] ev.difficulty = JStr(MediumText) -> JNum(<<"1", "5">>)
              [] ev.difficulty = JStr(HardText) -> JNum(<<"3", "0">>)
              [] OTHER -> JNum(<<"1", "5">>)

\* a Hard variant without a solve time was given 30
C17_Witness ==
    /\ Enriched
    /\ ev.difficulty = JStr(HardText)
    /\ ev.metadata.expected_solve_time_minutes = JUndef
    /\ eres.metadata.expected_solve_time_minutes = JNum(<<"3", "0">>)

\* mastery_indicators was synthesized: the variant had none, an empty array
\* or something that is not an array
IndicatorsSynthesized ==
    /\ enpc = "enriched"
    /\ ev.metadata.t = "obj" => ~NonEmptyArray(ev.metadata.mastery_indicators)

PoolPhrases == {commonIndicators[j] : j \in 1..Len(commonIndicators)}

\* C18: synthesized mastery_indicators are between 3 and 6 pairwise distinct
\* phrases of the pool of eight, whatever the random source gave.
C18_IndicatorsFromPool ==
    IndicatorsSynthesized =>
        LET m == eres.metadata.mastery_indicators IN
        /\ Cardinality(PoolPhrases) = 8
        /\ m.t = "arr"
        /\ Len(m.kids) \in 3..6
        /\ \A j \in 1..Len(m.kids) : m.kids[j].v.t = "str" /\ m.kids[j].v.s \in PoolPhrases
        /\ \A j, k \in 1..Len(m.kids) : j # k => m.kids[j].v # m.kids[k].v

\* six phrases were drawn from a pool left in reverse order
C18_Witness ==
    /\ IndicatorsSynthesized
    /\ ernd.perm = ReverseOrder
    /\ Len(eres.metadata.mastery_indicators.kids) = 6
    /\ eres.metadata.mastery_indicators.kids[1].v.s = commonIndicators[8]

\* ------------------------------------------------------------------------
\* Properties of the model resolution
\* ------------------------------------------------------------------------
MistralModels ==
    {<<"m", "i", "s", "t", "r", "a", "l", "-", "s", "m", "a", "l", "l", "-", "l", "a", "t", "e", "s", "t">>,
     <<"m", "i", "s", "t", "r", "a", "l", "-", "m", "e", "d", "i", "u", "m", "-", "l", "a", "t", "e", "s", "t">>,
     <<"m", "i", "s", "t", "r", "a", "l", "-", "l", "a", "r", "g", "e", "-", "l", "a", "t", "e", "s", "t">>}

GeminiModels == {<<"g", "e", "m", "i", "n", "i", "-", "2", ".", "5", "-", "f", "l", "a", "s", "h">>}

\* the selection names the lineage w, in any case
Names(w) == Includes(LowerText(modelSelection), w)

\* C19: a selection that names mistral, in any case, resolves to the provider
\* mistral and a mistral model, one that names gemini or google (and not
\* mistral) to the provider gemini and a gemini model; mistral-large gives
\* mistral-large-latest; a selection that names no lineage has no provider and
\* is itself the model name.
C19_ResolvedWithinLineage ==
    selpc = "resolved" =>
        /\ Names(MistralWord) => selProvider = "mistral" /\ selModel \in MistralModels
        /\ ~Names(MistralWord) /\ (Names(GeminiWord) \/ Names(GoogleWord))
            => selProvider = "gemini" /\ selModel \in GeminiModels
        /\ ~Names(MistralWord) /\ ~Names(GeminiWord) /\ ~Names(GoogleWord)
            => selProvider = "none" /\ selModel = modelSelection
        /\ modelSelection \in {<<"m", "i", "s", "t", "r", "a", "l", "-", "l", "a", "r", "g", "e">>, <<"M", "i", "s", "t", "r", "a", "l", "-", "L", "A", "R", "G", "E">>}
            => selModel = <<"m", "i", "s", "t", "r", "a", "l", "-", "l", "a", "r", "g", "e", "-", "l", "a", "t", "e", "s", "t">>

\* Mistral-LARGE was resolved to mistral and mistral-large-latest
C19_Witness ==
    /\ selpc = "resolved"
    /\ modelSelection = <<"M", "i", "s", "t", "r", "a", "l", "-", "L", "A", "R", "G", "E">>
    /\ selProvider = "mistral"
    /\ selModel = <<"m", "i", "s", "t", "r", "a", "l", "-", "l", "a", "r", "g", "e", "-", "l", "a", "t", "e", "s", "t">>

\* ------------------------------------------------------------------------
\* Properties of POST /api/questions
\* ------------------------------------------------------------------------
WriteDone == wpc = "done"

SecretSet == API_KEY # <<>>

HeaderRight == wreq.header # <<>> /\ wreq.header = API_KEY

\* a required field of the body is missing (a body that is no object has none)
FieldMissing == wreq.kind # "object" \/ MissingFields(wreq.body)

\* C20 as stated: 500 without a configured secret, 401 for a missing or
\* wrong header, 400 for a missing required field, 409 for an id that
\* exists, and 201 with the inserted row in every other case; a row is
\* inserted only with 201.
C20_StatusByCase ==
    WriteDone =>
        /\ ~SecretSet => wresponse.status = 500
        /\ SecretSet /\ ~HeaderRight => wresponse.status = 401
        /\ SecretSet /\ HeaderRight /\ FieldMissing => wresponse.status = 400
        /\ SecretSet /\ HeaderRight /\ ~FieldMissing =>
            \/ wresponse.status = 409 /\ wreq.body.id \in wrows
            \/ wresponse.status = 201 /\ wresponse.data = wreq.body.id
        /\ wresponse.data # 0 => wresponse.status = 201

\* C20, amended: after the checks of the secret (500) and of the header
\* (401), a body that is not JSON or is null, and a failing database call,
\* give 500; a missing or falsy required field gives 400, and so does a
\* document the document store refuses; an id that exists when it is looked
\* up or when the row is inserted gives 409; every other request gives 201
\* with the inserted row, and a row is inserted only with 201.
C20_StatusByCaseOrFailure ==
    WriteDone =>
        /\ ~SecretSet => wresponse = [status |-> 500, message |-> "configuration", data |-> 0]
        /\ SecretSet /\ ~HeaderRight =>
            wresponse = [status |-> 401, message |-> "unauthorized", data |-> 0]
        /\ SecretSet /\ HeaderRight =>
            /\ wresponse.message = "internal" <=> wresponse.status = 500
            /\ wreq.kind # "object" => wresponse.status = 500
            /\ wreq.kind = "object" /\ FieldMissing => wresponse.status \in {400, 500}
            /\ wresponse.message = "missing" <=> wresponse.status = 400 /\ FieldMissing
            /\ wresponse.message = "validation" <=>
                    /\ wresponse.status = 400
                    /\ ~FieldMissing
                    /\ wreq.backend = "mongo"
                    /\ wreq.body.difficulty = "other"
            /\ wresponse.status = 409 =>
                    /\ ~FieldMissing
                    /\ wreq.body.id \in wrows
                    /\ wresponse.message \in {"exists", "duplicate"}
            /\ wresponse.status = 201 =>
                    /\ ~FieldMissing
                    /\ wreq.body.id \in wrows
                    /\ wresponse.data = wreq.body.id
            /\ wresponse.status \in {500, 400, 409, 201}
        /\ wresponse.data # 0 <=> wresponse.status = 201

\* a row was inserted beside another one and answered with 201
C20_Witness ==
    /\ WriteDone
    /\ wresponse = [status |-> 201, message |-> "added", data |-> wreq.body.id]
    /\ wreq.body.id \in wrows
    /\ Cardinality(wrows) = 2

\* ------------------------------------------------------------------------
\* Authentication of POST /api/generate-question
\* ------------------------------------------------------------------------
\* the x-api-key header is there and is the configured key
GenHeaderRight == xApiKey # <<>> /\ API_KEY # <<>> /\ xApiKey = API_KEY

\* C23: a generation request whose x-api-key header is missing or is not the
\* configured key is rejected: it is never answered with 201, and no provider
\* call and no insertion is made for it.
C23_RequiresApiKey ==
    ~GenHeaderRight =>
        /\ providerCalls = 0
        /\ store = <<>>
        /\ inserted = <<>>
        /\ GenDone => response.status # 201

\* ------------------------------------------------------------------------
\* The count of a generation request
\* ------------------------------------------------------------------------
\* C24: a request whose body omits count is handled as a request for one
\* variant: it passes the check of count and every oneTry made for it asks the
\* provider for 1 variant.
C24_DefaultCountOne ==
    req.readable /\ ~req.count.given =>
        /\ ~CountRejected(CountOf(req))
        /\ \A j \in 1..Len(tries) : tries[j].count = 1

\* ------------------------------------------------------------------------
\* Failures of single variants
\* ------------------------------------------------------------------------
\* sequence a is the beginning of sequence b
IsPrefix(a, b) == Len(a) <= Len(b) /\ SubSeq(b, 1, Len(a)) = a

\* the check that variant v fails before insertQuestion is called, "none" if
\* it passes them all
FailureBeforeInsert(v) ==
    IF MissingRequired(v) THEN "missing"
    ELSE Bind(validateAndFixVariant(v), LAMBDA fixed :
            IF fixed.thrown THEN "exception"
            ELSE Bind(enrichMetadata(fixed.v, [n |-> MinIndicators, perm |-> IdentityOrder]),
                      LAMBDA enriched :
                        IF enriched.thrown THEN "exception"
                        ELSE IF RevalidationFails(enriched.v) THEN "revalidation"
                        ELSE "none"))

\* the entries of errors that are about variant j
ErrorsOf(j) == {k \in 1..Len(errors) : errors[k].variant = j}

\* what holds of the lists in every state
VariantFailuresKept ==
    /\ Len(inserted) + Len(errors) = idx
    /\ \A j \in 1..idx : Cardinality(ErrorsOf(j)) <= 1
    /\ \A k \in 1..Len(errors) :
        /\ errors[k].variant \in 1..idx
        /\ errors[k].error \in {"missing", "exception", "revalidation", "insert"}
    /\ Len(store) = Len(inserted)
    /\ \A k \in 1..Len(inserted) : store[k].id = inserted[k].id
    /\ pc = "loop" => response = NoResponse
    /\ GenDone /\ response.shape = "batch" => idx = Len(variants)

\* what holds of every step of the loop: it calls no provider, it keeps what
\* the lists and the store hold, and a step that processes variant idx + 1
\* either records the check the variant fails, or records the failure of
\* insertQuestion, or inserts the row
VariantStepKeeps ==
    pc = "loop" =>
        /\ tries' = tries
        /\ providerCalls' = providerCalls
        /\ variants' = variants
        /\ IsPrefix(store, store')
        /\ IsPrefix(inserted, inserted')
        /\ IsPrefix(errors, errors')
        /\ idx' \in {idx, idx + 1}
        /\ idx' = idx + 1 =>
            \E kind \in {FailureBeforeInsert(variants[idx + 1])} :
                IF kind # "none"
                THEN /\ errors' = Append(errors, [variant |-> idx + 1, error |-> kind])
                     /\ store' = store
                     /\ inserted' = inserted
                ELSE \/ /\ errors' = Append(errors, [variant |-> idx + 1, error |-> "insert"])
                        /\ store' = store
                        /\ inserted' = inserted
                     \/ /\ errors' = errors
                        /\ Len(store') = Len(store) + 1
                        /\ Len(inserted') = Len(inserted) + 1

\* C25: the failure of one variant (basic validation, an exception of the
\* normalization or the enrichment, the re-validation, or insertQuestion) is
\* recorded once, as the error of that variant; no step of the loop calls the
\* provider or oneTry again; the loop goes on to the last variant before the
\* batch is answered; and no step of the loop takes a row out of the store or
\* an entry out of the list of the inserted rows.
C25_VariantFailureIsolated == [](VariantFailuresKept) /\ [][VariantStepKeeps]_vars

\* a batch of three answered after the second variant failed in the store:
\* the first row stayed and the third variant was inserted after the failure
C25_Witness ==
    /\ GenDone
    /\ response.shape = "batch"
    /\ Len(variants) = 3
    /\ errors = <<[variant |-> 2, error |-> "insert"]>>
    /\ Len(inserted) = 2
    /\ Len(store) = 2

\* ------------------------------------------------------------------------
\* The brace depth of the scan
\* ------------------------------------------------------------------------
\* the part of t before its first opening brace
BeforeFirstBrace(t) == Substring(t, 0, IndexOf(t, "{"))

\* t has an opening brace, and a closing brace before it that is in no string
HasStrayCloser(t) ==
    /\ IndexOf(t, "{") # -1
    /\ \E before \in {BeforeFirstBrace(t)} :
        /\ \E j \in 1..Len(before) : before[j] = "}"
        /\ \A j \in 1..Len(before) : before[j] \notin {QT, BS}

\* t without the closing braces before its first opening brace
WithoutStrayClosers(t) ==
    SelectSeq(BeforeFirstBrace(t), LAMBDA c : c # "}") \o Substring(t, IndexOf(t, "{"), Len(t))

\* C26: the depth counter of the scan is never negative, and a closing brace
\* before the first opening brace does not change what is extracted: the
\* extractor returns for the text what it returns for the text without those
\* closing braces, and throws when it throws for that.
C26_DepthNeverNegative ==
    /\ braceCount >= 0
    /\ ExtractDone /\ HasStrayCloser(s) =>
        [thrown |-> epc = "thrown", text |-> result] = ExtractJSONObject(WithoutStrayClosers(s))

\* ------------------------------------------------------------------------
\* The requested count as a limit
\* ------------------------------------------------------------------------
\* C27: a request never inserts more rows than the count it asks for: the
\* rows inserted and the errors recorded are together at most count.
C27_AtMostCountRecords ==
    Validated =>
        /\ Len(store) <= CountOf(req).n
        /\ Len(inserted) + Len(errors) <= CountOf(req).n

\* ------------------------------------------------------------------------
\* Rejected generation requests
\* ------------------------------------------------------------------------
\* C28: a request answered with 400 has had no effect: the sequence was not
\* reset, the provider was not called and nothing was inserted.
C28_RejectionHasNoEffect ==
    GenDone /\ response.status = 400 =>
        /\ seqResets = 0
        /\ providerCalls = 0
        /\ tries = <<>>
        /\ store = <<>>

\* ------------------------------------------------------------------------
\* Termination of a generation request
\* ------------------------------------------------------------------------
\* the work of one request stays within its limits
GenWithinLimits ==
    /\ Len(tries) <= 2
    /\ providerCalls <= 2
    /\ idx <= Len(variants)
    /\ Len(store) <= idx
    /\ response # NoResponse <=> GenDone

\* a response that was sent is not replaced, and nothing happens after it
GenAnswersOnce == GenDone => UNCHANGED genVars

\* C30: every generation request comes to its response, and to one only: it
\* makes at most two tries, at most one insertion per variant of the accepted
\* response, and nothing once the response is sent, whatever the provider and
\* the store answer.
C30_TerminatesWithOneResponse ==
    /\ <>GenDone
    /\ []GenWithinLimits
    /\ [][GenAnswersOnce]_vars

\* a request answered after a failed first try, a retry that returned, and
\* the insertion of each of its five variants
C30_Witness ==
    /\ GenDone
    /\ Len(tries) = 2
    /\ Len(variants) = 5
    /\ Len(store) = 5
    /\ response.status = 201

\* ------------------------------------------------------------------------
\* Writing an id that exists
\* ------------------------------------------------------------------------
\* a call of the database threw: the 500 of a request that passed the checks
\* of the secret, the header and the body
DatabaseFailed == wresponse.message = "internal" /\ wreq.kind = "object"

\* the request is for an id whose row was in the table before the request
WritesStoredId ==
    /\ SecretSet
    /\ HeaderRight
    /\ ~FieldMissing
    /\ wcontent[wreq.body.id] = "stored"

\* no step takes a row out of the table or changes what a row holds
RowsKept == \A id \in wrows : id \in wrows' /\ wcontent'[id] = wcontent[id]

\* C21: a write of an id that is in the store is answered with 409 (the
\* database answering), and no step of the handler changes or removes the row
\* of that id or any other row.
C21_DuplicateLeavesRows ==
    /\ [](WriteDone /\ WritesStoredId /\ ~DatabaseFailed => wresponse.status = 409)
    /\ [][RowsKept]_vars

\* a write of the stored id 1 answered with 409, the row of id 1 and a row
\* written meanwhile by another request both in place
C21_Witness ==
    /\ WriteDone
    /\ WritesStoredId
    /\ wresponse = [status |-> 409, message |-> "exists", data |-> 0]
    /\ wrows = {1, 2}
    /\ wcontent[2] = "other"

\* ------------------------------------------------------------------------
\* Two writes of one new id
\* ------------------------------------------------------------------------
RaceDone == \A p \in Requesters : rpc[p] = "done"

\* both requests write the same id, and both found no row of it
BothPassedLookup ==
    /\ rreq.bodies[1].id = rreq.bodies[2].id
    /\ \A p \in Requesters : rresp[p].at = "insert"

\* the store takes both documents and no call of the database throws
BothInsertable ==
    \A p \in Requesters :
        /\ ~(rreq.backend = "mongo" /\ rreq.bodies[p].difficulty = "other")
        /\ rresp[p].message # "internal"

\* C29: of two writes of one new id that both pass the lookup before either
\* inserts, exactly one is answered 201 and the other 409, and the table ends
\* with exactly one row of that id (the documents being valid and the database
\* answering).
C29_OneWinsOneConflicts ==
    RaceDone /\ BothPassedLookup /\ BothInsertable =>
        /\ \E p \in Requesters, q \in Requesters :
            /\ p # q
            /\ rresp[p].status = 201
            /\ rresp[q].status = 409
        /\ Cardinality({r \in rrows : r.id = rreq.bodies[1].id}) = 1

\* both requests answered from their inserts, the second with the duplicate
\* key error
C29_Witness ==
    /\ RaceDone
    /\ BothPassedLookup
    /\ BothInsertable
    /\ rresp[1] = [status |-> 201, message |-> "added", at |-> "insert"]
    /\ rresp[2] = [status |-> 409, message |-> "duplicate", at |-> "insert"]

\* ------------------------------------------------------------------------
\* The rows a read returns
\* ------------------------------------------------------------------------
ReadDone == gpc = "done"

ReadAuthenticated == API_KEY # <<>> /\ greq.header # <<>> /\ greq.header = API_KEY

\* row r satisfies every filter the request supplies: its id is the numeric
\* id, one of the comma-separated tags is a tag of the row, and its difficulty
\* is the given one but for the case of the letters
SatisfiesFilters(r) ==
    /\ ParamTruthy(greq.id) => r.id = ParseInt(greq.id.text)
    /\ ParamTruthy(greq.tags) => \E w \in TagList(greq.tags.text) : w \in r.tags
    /\ ParamTruthy(greq.difficulty) =>
        LowerText(r.difficulty) = LowerText(Trim(greq.difficulty.text))

\* C22: an authenticated read (the id, if any, numeric and the database
\* answering) returns 404 when an id was supplied and no row satisfies the
\* filters, and otherwise 200 with exactly the rows that satisfy every
\* supplied filter.
C22_ExactlyTheFilteredRows ==
    ReadDone /\ ReadAuthenticated /\ gresp.status # 500 =>
        \E matching \in {{r \in gtable : SatisfiesFilters(r)}} :
            IF ParamTruthy(greq.id) /\ matching = {}
            THEN gresp = [status |-> 404, rows |-> {}]
            ELSE gresp = [status |-> 200, rows |-> matching]
====
